---- MODULE Spec2Model ----
(***************************************************************************)
(* HlsSegmentSource (src/src/hls/hls-variant-input.ts): the virtual byte   *)
(* stream over an HLS media playlist, with its LRU segment cache, its      *)
(* sliding-window playlist refresh and its live-edge handling.             *)
(*                                                                         *)
(* The JavaScript runtime is single threaded: every action below is the    *)
(* code that runs between two suspension points (an await on a fetch, a    *)
(* timer).  A segment is identified by its media sequence number; its      *)
(* attributes (byte range, size, duration) are fixed by the stream.        *)
(***************************************************************************)
EXTENDS Integers, Sequences, FiniteSets, TLC

VARIABLES
    brMode,                 \* which segments of the stream carry EXT-X-BYTERANGE
    mediaPlaylist,          \* this.mediaPlaylist: [mediaSequence, len, endList]
    initSegmentData,        \* length of the init segment buffer, or NULL
    segmentDataCache,       \* set of media sequences whose data is cached
    segmentAccessOrder,     \* LRU order, most recent at the end
    segmentInfoMap,         \* media sequence -> [start, end]
    knownSequences,         \* ordered list of tracked media sequences
    initialized,
    refreshTimer,           \* TRUE when a refresh timer is pending
    isRefreshing,           \* TRUE while refreshPlaylist awaits the playlist
    nextSegmentOffset,
    totalDurationSeconds,
    segmentChangeCounter,
    removedDurationSeconds,
    disposed,               \* Source._disposed
    ensuring,               \* ensureInitialized() awaits the init segment fetch
    fetches,                \* segment fetches in flight that no read awaits
    fetchedOnce,            \* history: tracked sequences fetched at least once
    rd,                     \* the _read call in progress
    onSegmentsAdded,        \* TRUE when the callback is set
    onSegmentsRemoved,      \* TRUE when the callback is set
    notified,               \* the callback invocations made by the last step
    hls,                    \* the HlsInput facade that holds the source
    hlsSource,              \* an HlsSource (src/src/hls/index.ts)
    muxer,                  \* an HlsMuxer (src/src/hls_old/hls-muxer.ts)
    m3u8,                   \* a media playlist, its M3U8 text and the parses of it
    track,                  \* an HlsTrackBacking and the packets it delivered
    scheduled,              \* history: the refresh timers set and not yet fired or
                            \* cleared, the refreshPlaylist calls past line 226
                            \* and not yet ended
    demuxer,                \* the fragment lookup table of the demuxer that
                            \* HlsVariantInput._getDemuxer sets up
    player                  \* the example player
                            \* (src/examples/media-player-hls/media-player-hls.ts)

vars == <<brMode, mediaPlaylist, initSegmentData, segmentDataCache,
          segmentAccessOrder, segmentInfoMap, knownSequences, initialized,
          refreshTimer, isRefreshing, nextSegmentOffset, totalDurationSeconds,
          segmentChangeCounter, removedDurationSeconds, disposed, ensuring,
          fetches, fetchedOnce, rd, onSegmentsAdded, onSegmentsRemoved,
          notified, hls, hlsSource, muxer, m3u8, track, scheduled,
          demuxer, player>>

\* the objects that stand beside the segment source and its facade
otherVars == <<hlsSource, muxer, m3u8, track, scheduled, demuxer, player>>

\* the fields of the segment source
srcVars == <<brMode, mediaPlaylist, initSegmentData, segmentDataCache,
             segmentAccessOrder, segmentInfoMap, knownSequences, initialized,
             refreshTimer, isRefreshing, nextSegmentOffset, totalDurationSeconds,
             segmentChangeCounter, removedDurationSeconds, disposed, ensuring,
             fetches, fetchedOnce, rd, onSegmentsAdded, onSegmentsRemoved>>

----------------------------------------------------------------------------
(* Program constants *)

MAX_CACHED_SEGMENTS == 20
bufferSegments == 72
checkInterval == 100
maxWait == 10000
prefetchLimit == 3

(* Bounds of the model *)

InitLen == 2        \* bytes of the init segment
MaxWin == 2         \* most segments one playlist snapshot lists
MaxChanges == 3     \* no refresh is started once segmentChangeCounter reached it
ReadChanges == 2    \* the same, while a _read call is followed
MaxOff == 3         \* highest start offset a read asks for
MaxReadLen == 1     \* longest read
CacheWin == 22      \* segments of the long playlist that fills the cache
SpanLen == 2        \* longest read that spans a boundary
RefreshChanges == 3  \* the refresh cap where only refreshes are followed
NCallers == 2       \* facade operations in progress at the same time
NVariants == 2      \* variants of the master playlist
InputChanges == 2   \* the refresh cap where the facade is followed
PrefetchChanges == 3  \* the refresh cap where refreshes overlap prefetches
MaxVariants == 3    \* most variants of a master playlist
MaxBandwidth == 2   \* highest BANDWIDTH of a variant
MaxClosest == 2     \* most variants where the nearest variant is selected
MaxWidth == 2       \* largest width and height of a RESOLUTION
MaxAttempts == 2    \* the retry hook gives up at the latest after so many retries

NULL == -1

----------------------------------------------------------------------------
(* The stream: attributes of the segment with media sequence seq *)

BrModes == {"all", "none", "mixed"}

HasByteRange(seq) ==
    CASE brMode = "all" -> TRUE
      [] brMode = "none" -> FALSE
      [] OTHER -> seq % 2 = 1

\* data.length of the fetched segment; equals byteRange.length when present
SegSize(seq) == 1 + (seq % 2)

\* segment.duration
SegDuration(seq) == IF seq % 2 = 0 THEN 6 ELSE 4

\* how far the server's media sequence moves between two snapshots
Advances == {0, 1, bufferSegments + 1}

Playlist(m, n, e) == [mediaSequence |-> m, len |-> n, endList |-> e]

----------------------------------------------------------------------------
(* Helpers on sequences *)

RECURSIVE FilterSeq(_, _)
FilterSeq(s, S) ==
    IF s = <<>> THEN <<>>
    ELSE IF Head(s) \in S THEN <<Head(s)>> \o FilterSeq(Tail(s), S)
    ELSE FilterSeq(Tail(s), S)

Range(s) == {s[i] : i \in DOMAIN s}

\* Array.prototype.indexOf, 1-based; 0 when absent
IndexOf(s, x) ==
    IF x \in Range(s) THEN CHOOSE i \in DOMAIN s : s[i] = x /\ \A j \in 1..(i-1) : s[j] # x
    ELSE 0

\* splice(indexOf(x), 1): removes the first occurrence of x
RemoveFirst(s, x) ==
    LET i == IndexOf(s, x)
    IN IF i = 0 THEN s ELSE SubSeq(s, 1, i-1) \o SubSeq(s, i+1, Len(s))

Restrict(f, S) == [x \in S |-> f[x]]

RECURSIVE SumDurations(_)
SumDurations(s) ==
    IF s = <<>> THEN 0 ELSE SegDuration(Head(s)) + SumDurations(Tail(s))

RECURSIVE RemoveAllFirst(_, _)
RemoveAllFirst(order, expired) ==
    IF expired = <<>> THEN order
    ELSE RemoveAllFirst(RemoveFirst(order, Head(expired)), Tail(expired))

----------------------------------------------------------------------------
(* Segment fetches in flight.  A fetch holds the SegmentInfo object it read *)
(* from segmentInfoMap before the await: att says that this object is still *)
(* the one in the map; once the entry is deleted the object is detached and *)
(* dstart keeps the start offset it had.                                    *)

FetchRec(seq, src) == [seq |-> seq, att |-> TRUE, dstart |-> 0, src |-> src]

BagAdd(b, r) ==
    IF r \in DOMAIN b THEN [b EXCEPT ![r] = @ + 1] ELSE b @@ (r :> 1)

BagRemove(b, r) ==
    IF b[r] > 1 THEN [b EXCEPT ![r] = @ - 1] ELSE Restrict(b, DOMAIN b \ {r})

RECURSIVE BagSize(_)
BagSize(b) ==
    IF DOMAIN b = {} THEN 0
    ELSE LET r == CHOOSE x \in DOMAIN b : TRUE
         IN b[r] + BagSize(Restrict(b, DOMAIN b \ {r}))

EmptyBag == << >>

InFlight(src) == BagSize(Restrict(fetches, {r \in DOMAIN fetches : r.src = src}))

DetachRec(r, removed, map) ==
    IF r.att /\ r.seq \in removed
    THEN [r EXCEPT !.att = FALSE, !.dstart = map[r.seq].start]
    ELSE r

DetachBag(b, removed, map) ==
    LET img == {DetachRec(r, removed, map) : r \in DOMAIN b}
    IN [x \in img |->
          BagSize(Restrict(b, {r \in DOMAIN b : DetachRec(r, removed, map) = x}))]

\* the read in progress holds its SegmentInfo in the same way while it awaits
DetachRd(r, removed, map) ==
    IF r.pc \in {"fetch", "tailfetch"} /\ r.att /\ r.seq \in removed
    THEN [r EXCEPT !.att = FALSE, !.dstart = map[r.seq].start]
    ELSE r

----------------------------------------------------------------------------
(* addSegmentsFromPlaylist: st = [map, known, next, total, counter, new,    *)
(* startTimeSeconds]                                                        *)

\* a faulty variant of AddLoop: the byte range of a new segment is ignored
RECURSIVE AddLoopIgnoringByteRange(_, _, _)
AddLoopIgnoringByteRange(playlist, i, st) ==
    IF i >= playlist.len THEN st
    ELSE
      LET seq == playlist.mediaSequence + i
      IN IF seq \in DOMAIN st.map THEN AddLoopIgnoringByteRange(playlist, i + 1, st)
         ELSE
           LET startOffset ==
                   IF Len(st.known) = 0 THEN st.next
                   ELSE st.map[st.known[Len(st.known)]].end
           IN AddLoopIgnoringByteRange(playlist, i + 1,
                  [map |-> st.map @@ (seq :> [start |-> startOffset, end |-> startOffset]),
                   known |-> Append(st.known, seq),
                   next |-> startOffset,
                   total |-> st.total + SegDuration(seq),
                   counter |-> st.counter + 1,
                   new |-> Append(st.new, [durationSeconds |-> SegDuration(seq),
                                           moofOffset |-> startOffset]),
                   startTimeSeconds |-> st.startTimeSeconds])

RECURSIVE AddLoop(_, _, _)
AddLoop(playlist, i, st) ==
    IF i >= playlist.len THEN st
    ELSE
      LET seq == playlist.mediaSequence + i
      IN IF seq \in DOMAIN st.map THEN AddLoop(playlist, i + 1, st)
         ELSE
           LET startOffset ==
                   IF Len(st.known) = 0 THEN st.next
                   ELSE st.map[st.known[Len(st.known)]].end
               endOffset ==
                   IF HasByteRange(seq) THEN startOffset + SegSize(seq)
                   ELSE startOffset
           IN AddLoop(playlist, i + 1,
                  [map |-> st.map @@ (seq :> [start |-> startOffset, end |-> endOffset]),
                   known |-> Append(st.known, seq),
                   next |-> endOffset,
                   total |-> st.total + SegDuration(seq),
                   counter |-> st.counter + 1,
                   new |-> Append(st.new, [durationSeconds |-> SegDuration(seq),
                                           moofOffset |-> startOffset]),
                   startTimeSeconds |-> st.startTimeSeconds])

\* a faulty variant of addSegmentsFromPlaylist: the start time returned is the
\* total duration after the ingest
addSegmentsLateStart(playlist, map, known, next, total, counter) ==
    LET st == AddLoop(playlist, 0,
                      [map |-> map, known |-> known, next |-> next, total |-> total,
                       counter |-> counter, new |-> <<>>, startTimeSeconds |-> total])
    IN [st EXCEPT !.startTimeSeconds = st.total]

addSegmentsFromPlaylist(playlist, map, known, next, total, counter) ==
    AddLoop(playlist, 0,
            [map |-> map, known |-> known, next |-> next, total |-> total,
             counter |-> counter, new |-> <<>>, startTimeSeconds |-> total])

----------------------------------------------------------------------------
(* removeExpiredSegments *)

ExpiredSet(playlist) ==
    LET currentMinSequence == playlist.mediaSequence - bufferSegments
        currentMaxSequence == playlist.mediaSequence + playlist.len - 1
    IN {seq \in Range(knownSequences) :
           seq < currentMinSequence \/ seq > currentMaxSequence}

\* a faulty variant of removeExpiredSegments: only the duration of the first
\* expired segment is accumulated
removeExpiredFirstDuration(playlist) ==
    LET expired == ExpiredSet(playlist)
        expiredSequences == FilterSeq(knownSequences, expired)
    IN [map |-> Restrict(segmentInfoMap, DOMAIN segmentInfoMap \ expired),
        cache |-> segmentDataCache \ expired,
        order |-> RemoveAllFirst(segmentAccessOrder, expiredSequences),
        known |-> FilterSeq(knownSequences, Range(knownSequences) \ expired),
        removed |-> removedDurationSeconds
                      + (IF expiredSequences = <<>> THEN 0
                         ELSE SegDuration(Head(expiredSequences))),
        expired |-> expiredSequences]

removeExpiredSegments(playlist) ==
    LET expired == ExpiredSet(playlist)
        expiredSequences == FilterSeq(knownSequences, expired)
    IN [map |-> Restrict(segmentInfoMap, DOMAIN segmentInfoMap \ expired),
        cache |-> segmentDataCache \ expired,
        order |-> RemoveAllFirst(segmentAccessOrder, expiredSequences),
        known |-> FilterSeq(knownSequences, Range(knownSequences) \ expired),
        removed |-> removedDurationSeconds + SumDurations(expiredSequences),
        expired |-> expiredSequences]

----------------------------------------------------------------------------
(* evictOldCacheEntries and the completion of fetchSegmentBySequence *)

updateLruAccess(order, seq) == Append(RemoveFirst(order, seq), seq)

RECURSIVE evictOldCacheEntries(_, _)
evictOldCacheEntries(cache, order) ==
    IF Cardinality(cache) >= MAX_CACHED_SEGMENTS /\ order # <<>>
    THEN LET lruSequence == Head(order)
         IN IF lruSequence \notin Range(knownSequences)
               \/ Cardinality(cache) > MAX_CACHED_SEGMENTS
            THEN evictOldCacheEntries(cache \ {lruSequence}, Tail(order))
            ELSE [cache |-> cache, order |-> Append(Tail(order), lruSequence)]
    ELSE [cache |-> cache, order |-> order]

\* a faulty variant of Propagate: the loop does not stop at a segment that
\* carries a byte range
RECURSIVE PropagateOverByteRange(_, _, _, _)
PropagateOverByteRange(map, cache, i, nextStart) ==
    IF i > Len(knownSequences) THEN map
    ELSE
      LET nextSeq == knownSequences[i]
      IN IF nextSeq \notin DOMAIN map THEN map
         ELSE IF nextSeq \in cache
              THEN PropagateOverByteRange(
                     [map EXCEPT ![nextSeq] =
                         [start |-> nextStart, end |-> nextStart + SegSize(nextSeq)]],
                     cache, i + 1, nextStart + SegSize(nextSeq))
              ELSE [map EXCEPT ![nextSeq] = [start |-> nextStart, end |-> nextStart]]

\* the loop over the segments after seqIndex (lines 495-512); i is 1-based
RECURSIVE Propagate(_, _, _, _)
Propagate(map, cache, i, nextStart) ==
    IF i > Len(knownSequences) THEN map
    ELSE
      LET nextSeq == knownSequences[i]
      IN IF nextSeq \notin DOMAIN map THEN map
         ELSE IF HasByteRange(nextSeq) THEN map
         ELSE IF nextSeq \in cache
              THEN Propagate(
                     [map EXCEPT ![nextSeq] =
                         [start |-> nextStart, end |-> nextStart + SegSize(nextSeq)]],
                     cache, i + 1, nextStart + SegSize(nextSeq))
              ELSE [map EXCEPT ![nextSeq] = [start |-> nextStart, end |-> nextStart]]

\* what runs after the await of fetchDataWithTimeout (lines 481-515)
FetchDone(seq, att, dstart) ==
    LET ev == evictOldCacheEntries(segmentDataCache, segmentAccessOrder)
        cache == ev.cache \cup {seq}
        order == Append(ev.order, seq)
        infoStart == IF att THEN segmentInfoMap[seq].start ELSE dstart
        infoEnd == infoStart + SegSize(seq)
        map1 == IF att THEN [segmentInfoMap EXCEPT ![seq].end = infoEnd]
                ELSE segmentInfoMap
        map2 == IF HasByteRange(seq) THEN map1
                ELSE Propagate(map1, cache, IndexOf(knownSequences, seq) + 1, infoEnd)
    IN [cache |-> cache, order |-> order, map |-> map2, end |-> infoEnd,
        start |-> infoStart]

----------------------------------------------------------------------------
(* The read in progress *)

IdleRd == [pc |-> "idle", start |-> 0, end |-> 0, written |-> 0, iter |-> <<>>,
           idx |-> 0, seq |-> 0, att |-> FALSE, dstart |-> 0, waited |-> 0,
           counter |-> 0, nfetch |-> 0, result |-> "none", bytes |-> <<>>,
           offset |-> NULL]

----------------------------------------------------------------------------
(* HlsSource (src/src/hls/index.ts): resolve() fetches the manifest through *)
(* doFetch, selects a variant of a master playlist and fetches its media    *)
(* playlist.  A variant is [bandwidth, codecs]; codecs is the list of the   *)
(* CODECS attribute, empty when the attribute is absent.                    *)

VariantStreams ==
    [bandwidth : 1..MaxBandwidth,
     codecs : {<<>>, <<"avc1", "mp4a">>, <<"avc1", "ec-3">>, <<"hvc1", "ac-3">>}]

\* [...s].sort(compare) on the indices s of variants, compare being
\* b.bandwidth - a.bandwidth (descending) or a.bandwidth - b.bandwidth: the
\* sort is stable
RECURSIVE sort(_, _, _)
sort(variants, s, descending) ==
    IF s = <<>> THEN <<>>
    ELSE
      LET front == sort(variants, SubSeq(s, 1, Len(s) - 1), descending)
          x == s[Len(s)]
          compare(a, b) == IF descending
                           THEN variants[b].bandwidth - variants[a].bandwidth
                           ELSE variants[a].bandwidth - variants[b].bandwidth
          later == {p \in DOMAIN front : compare(front[p], x) > 0}
          pos == IF later = {} THEN Len(front) + 1
                 ELSE CHOOSE p \in later : \A q \in later : p <= q
      IN SubSeq(front, 1, pos - 1) \o <<x>> \o SubSeq(front, pos, Len(front))

\* a faulty variant of selectVariant: Dolby variants are not filtered out
selectVariantUnfiltered(variants, selection) ==
    IF variants = <<>> THEN 0
    ELSE Head(sort(variants, [i \in 1..Len(variants) |-> i],
                   selection \in {"highest", "auto"}))

\* the first variant whose bandwidth is nearest to targetBandwidth: the loop
\* replaces closest only on a strictly smaller difference
findClosestVariantByBandwidth(variants, targetBandwidth) ==
    LET diff(i) == IF variants[i].bandwidth >= targetBandwidth
                   THEN variants[i].bandwidth - targetBandwidth
                   ELSE targetBandwidth - variants[i].bandwidth
    IN IF variants = <<>> THEN 0
       ELSE CHOOSE i \in DOMAIN variants :
               \A j \in DOMAIN variants :
                   diff(i) < diff(j) \/ (diff(i) = diff(j) /\ i <= j)

\* the first variant with a resolution whose width and height are nearest to
\* the target <<width, height>>; the variant of highest bandwidth when no
\* variant has a resolution
findClosestVariantByResolution(variants, targetResolution) ==
    LET Abs(x) == IF x >= 0 THEN x ELSE 0 - x
        diff(i) == Abs(variants[i].resolution[1] - targetResolution[1])
                     + Abs(variants[i].resolution[2] - targetResolution[2])
        sized == {i \in DOMAIN variants : variants[i].resolution # <<>>}
    IN IF sized = {}
       THEN IF variants = <<>> THEN 0
            ELSE Head(sort(variants, [i \in 1..Len(variants) |-> i], TRUE))
       ELSE CHOOSE i \in sized :
               \A j \in sized : diff(i) < diff(j) \/ (diff(i) = diff(j) /\ i <= j)

\* selectVariant (lines 492-531): the index of the variant in the manifest, 0
\* for null.  The policy { bandwidth } is the selection "bandwidth" and
\* { resolution } the selection "resolution", their value being the field
\* target of the source.
selectVariant(variants, selection) ==
    IF variants = <<>> THEN 0
    ELSE
      LET all == [i \in 1..Len(variants) |-> i]
          preferredVariants ==
              SelectSeq(all, LAMBDA i : /\ "ec-3" \notin Range(variants[i].codecs)
                                        /\ "ac-3" \notin Range(variants[i].codecs))
          candidateVariants == IF Len(preferredVariants) > 0 THEN preferredVariants
                               ELSE all
      IN IF selection \in {"highest", "auto"}
         THEN Head(sort(variants, candidateVariants, TRUE))
         ELSE IF selection = "lowest"
         THEN Head(sort(variants, candidateVariants, FALSE))
         ELSE IF selection = "bandwidth"
         THEN findClosestVariantByBandwidth(variants, hlsSource.target[1])
         ELSE findClosestVariantByResolution(variants, hlsSource.target)

\* the source before resolve(): pc is the position of resolve(), url the
\* playlist that doFetch fetches, attempts its local counter, fetchCalls the
\* calls of fetchFn it made, hookCalls the calls of options.getRetryDelay,
\* errors the number of errors fetchFn threw (the n-th is error n), thrown
\* the error that resolve() threw (0: an error that fetchFn did not throw)
IdleSource ==
    [qualitySelection |-> "auto", getRetryDelay |-> FALSE, master |-> FALSE,
     variants |-> <<>>, selectedVariant |-> 0, pc |-> "idle", url |-> "manifest",
     attempts |-> 0, fetchCalls |-> 0, hookCalls |-> <<>>, errors |-> 0,
     thrown |-> NULL, target |-> <<>>]

\* resolve() up to the first call of fetchFn in doFetch (lines 181-190, 434-443)
SourceResolve ==
    /\ hlsSource.pc = "idle"
    /\ hlsSource' = [hlsSource EXCEPT !.pc = "fetch", !.url = "manifest",
                                      !.attempts = 0, !.fetchCalls = 1]
    /\ notified' = <<>>
    /\ UNCHANGED <<srcVars, hls, muxer, m3u8, track, scheduled, demuxer, player>>

\* fetchFn resolves with a response: fetchManifest throws unless response.ok;
\* resolve() goes on with the playlist (lines 191-203, 461-483)
SourceFetchResponse(ok) ==
    /\ hlsSource.pc = "fetch"
    /\ LET selected == selectVariant(hlsSource.variants, hlsSource.qualitySelection)
       IN hlsSource' =
            IF ~ok THEN [hlsSource EXCEPT !.pc = "failed", !.thrown = 0]
            ELSE IF hlsSource.url = "manifest" /\ hlsSource.master
            THEN IF selected = 0
                 THEN [hlsSource EXCEPT !.pc = "failed", !.thrown = 0]
                 ELSE [hlsSource EXCEPT !.selectedVariant = selected, !.url = "media",
                                        !.attempts = 0, !.fetchCalls = 1]
            ELSE [hlsSource EXCEPT !.pc = "resolved"]
    /\ notified' = <<>>
    /\ UNCHANGED <<srcVars, hls, muxer, m3u8, track, scheduled, demuxer, player>>

\* a faulty variant of SourceFetchThrows: the hook always gets attempt 0
SourceFetchThrowsFirstAttempt(delay) ==
    /\ hlsSource.pc = "fetch"
    /\ LET error == hlsSource.errors + 1
           call == [attempt |-> 0, error |-> error, url |-> hlsSource.url]
       IN hlsSource' =
            IF ~hlsSource.getRetryDelay
            THEN [hlsSource EXCEPT !.pc = "failed", !.errors = error, !.thrown = error]
            ELSE IF delay = NULL
            THEN [hlsSource EXCEPT !.pc = "failed", !.errors = error, !.thrown = error,
                                   !.hookCalls = Append(@, call)]
            ELSE [hlsSource EXCEPT !.pc = "delay", !.errors = error,
                                   !.hookCalls = Append(@, call)]
    /\ notified' = <<>>
    /\ UNCHANGED <<srcVars, hls, muxer, m3u8, track, scheduled, demuxer, player>>

\* fetchFn throws (lines 444-453): without a hook the error propagates;
\* otherwise the hook is called and returns delay, NULL to give up
SourceFetchThrows(delay) ==
    /\ hlsSource.pc = "fetch"
    /\ LET error == hlsSource.errors + 1
           call == [attempt |-> hlsSource.attempts, error |-> error,
                    url |-> hlsSource.url]
       IN hlsSource' =
            IF ~hlsSource.getRetryDelay
            THEN [hlsSource EXCEPT !.pc = "failed", !.errors = error, !.thrown = error]
            ELSE IF delay = NULL
            THEN [hlsSource EXCEPT !.pc = "failed", !.errors = error, !.thrown = error,
                                   !.hookCalls = Append(@, call)]
            ELSE [hlsSource EXCEPT !.pc = "delay", !.errors = error,
                                   !.hookCalls = Append(@, call)]
    /\ notified' = <<>>
    /\ UNCHANGED <<srcVars, hls, muxer, m3u8, track, scheduled, demuxer, player>>

\* the delay has passed (lines 455-456): attempts++ and the loop calls fetchFn
SourceDelayDone ==
    /\ hlsSource.pc = "delay"
    /\ hlsSource' = [hlsSource EXCEPT !.pc = "fetch", !.attempts = @ + 1,
                                      !.fetchCalls = @ + 1]
    /\ notified' = <<>>
    /\ UNCHANGED <<srcVars, hls, muxer, m3u8, track, scheduled, demuxer, player>>

----------------------------------------------------------------------------
(* HlsInput (src/src/hls/hls-input.ts), the facade that fetches the manifest, *)
(* selects a variant and builds the HlsVariantInput over the source.  A call  *)
(* of a facade operation is followed in one of NCallers slots.                *)

NoPlaylist == Playlist(NULL, 0, FALSE)

NoInput == [built |-> FALSE, from |-> 0]

IdleCall == [op |-> "none", pc |-> "idle", v |-> 0]

\* the fields of HlsInput after construction (lines 87-107)
HlsInit ==
    [initPromise |-> "none",          \* "pending", "resolved", "rejected"
     manifestFetches |-> 0,           \* fetches of manifestUrl so far
     master |-> FALSE,                \* _masterPlaylist is set
     mediaPlaylist |-> NoPlaylist,    \* the manifest when it is a media playlist
     currentMediaPlaylist |-> NoPlaylist,
     selectedVariant |-> 0,           \* 0 is null, else an index into variants
     selectedInput |-> NoInput,       \* from: the variant whose playlist it wraps
     disposed |-> FALSE,
     lastDuration |-> NULL,           \* history: last value of computeDuration
                                      \* for the selected variant
     returned |-> <<>>,               \* what the last step returned or threw
     calls |-> [c \in 1..NCallers |-> IdleCall]]

----------------------------------------------------------------------------
(* The example player (src/examples/media-player-hls/media-player-hls.ts).   *)
(* Its coroutines are followed in NTasks slots: a load (initMediaPlayer),    *)
(* the frame-update loop (updateNextFrame), the audio loop (runAudioIterator)*)
(* and a recovery (handleLiveEdgeError with its seekToTime).  A task keeps   *)
(* gen, the number of loads started when it began, and id, the asyncId it    *)
(* captured.  An object or a value of the shared state is written as <<g>>,  *)
(* g the gen of the task that produced it, <<>> for null.  The stream has a  *)
(* video and an audio track, the audio context is running, and an iterator   *)
(* yields a frame or throws HlsLiveEdgeError.                                *)

MaxLoads == 2        \* loads that the user starts
MaxRecoveries == 2   \* recoveries that set isHandlingLiveEdge
NTasks == 3          \* coroutines of the player in progress at the same time

IdleTask ==
    [kind |-> "none", pc |-> "idle", gen |-> 0, id |-> 0, rid |-> 0,
     wasPlaying |-> FALSE]

\* the variables of the module (lines 51-82); recoveries counts the
\* recoveries, setBy is the recovery that set isHandlingLiveEdge last and
\* timers the recoveries whose 500 ms timer is pending
IdlePlayer ==
    [asyncId |-> 0, gen |-> 0, fileLoaded |-> FALSE, isLiveStream |-> FALSE,
     playing |-> FALSE, isHandlingLiveEdge |-> FALSE, setBy |-> 0,
     recoveries |-> 0, timers |-> {},
     totalDuration |-> <<0>>, playbackTimeAtStart |-> <<0>>,
     videoSink |-> <<>>, videoFrameIterator |-> <<>>, nextFrame |-> <<>>,
     tasks |-> [t \in 1..NTasks |-> IdleTask]]

\* pause() called by a task of generation g
pause(p, g) == [p EXCEPT !.playbackTimeAtStart = <<g>>, !.playing = FALSE]

\* play() called by the task in slot t, whose coroutine ends with the call:
\* runAudioIterator starts in the slot and captures asyncId
play(p, t) ==
    [p EXCEPT !.playing = TRUE,
              !.tasks[t] = [IdleTask EXCEPT !.kind = "audio", !.pc = "next",
                                            !.gen = p.tasks[t].gen,
                                            !.id = p.asyncId]]

\* handleLiveEdgeError up to its await of computeDuration, called by the
\* loop in slot t
handleLiveEdgeError(p, t) ==
    IF ~p.isLiveStream \/ p.isHandlingLiveEdge
    THEN [p EXCEPT !.tasks[t] = IdleTask]
    ELSE [p EXCEPT !.isHandlingLiveEdge = TRUE,
                   !.setBy = p.recoveries + 1,
                   !.recoveries = @ + 1,
                   !.tasks[t] = [IdleTask EXCEPT !.kind = "recovery",
                                                 !.pc = "duration",
                                                 !.gen = p.tasks[t].gen,
                                                 !.rid = p.recoveries + 1]]

\* initMediaPlayer up to its first await (lines 85-121)
initMediaPlayer(t) ==
    /\ player.tasks[t].kind = "none"
    /\ player.gen < MaxLoads
    /\ LET g == player.gen + 1
           p == IF player.playing THEN pause(player, g) ELSE player
       IN player' = [p EXCEPT !.isHandlingLiveEdge = FALSE,
                              !.asyncId = @ + 1,
                              !.gen = g,
                              !.fileLoaded = FALSE,
                              !.tasks[t] = [IdleTask EXCEPT !.kind = "load",
                                                            !.pc = "tracks",
                                                            !.gen = g]]
    /\ notified' = <<>>
    /\ UNCHANGED <<srcVars, hls, hlsSource, muxer, m3u8, track, scheduled, demuxer>>

\* render() shows nextFrame and starts updateNextFrame, which runs to its
\* await of videoFrameIterator.next() (lines 253-298)
render(t) ==
    /\ player.tasks[t].kind = "none"
    /\ player.fileLoaded
    /\ player.videoSink # <<>>
    /\ player.nextFrame # <<>>
    /\ player.videoFrameIterator # <<>>
    /\ player' = [player EXCEPT !.nextFrame = <<>>,
                                !.tasks[t] = [IdleTask EXCEPT !.kind = "video",
                                                              !.pc = "next",
                                                              !.gen = player.gen,
                                                              !.id = player.asyncId]]
    /\ notified' = <<>>
    /\ UNCHANGED <<srcVars, hls, hlsSource, muxer, m3u8, track, scheduled, demuxer>>

\* the task in slot t resumes from its await and runs to its next await or
\* its end.  outcome is what the awaited call delivered: "ok", "vod" where
\* isLive() returns false, "liveEdge" where an iterator throws
\* HlsLiveEdgeError.  The awaits of a task between which it writes nothing
\* are one position: "tracks" (getVariants, the primary tracks), "live"
\* (isLive, getTargetDuration), "frames" (the two frames of
\* startVideoIterator).
Resume(t, outcome) ==
    LET task == player.tasks[t]
        g == task.gen
        at(kind, pc) == task.kind = kind /\ task.pc = pc
    IN /\ task.kind # "none"
       /\ outcome = "vod" => at("load", "live")
       /\ outcome = "liveEdge" =>
             /\ task.pc = "next"
             /\ player.isLiveStream
             /\ player.recoveries < MaxRecoveries
       /\ player' =
            CASE at("load", "tracks") ->
                   [player EXCEPT !.tasks[t].pc = "duration"]
              [] at("load", "duration") ->
                   [player EXCEPT !.totalDuration = <<g>>,
                                  !.tasks[t].pc = "live"]
              [] at("load", "live") ->
                   [player EXCEPT !.isLiveStream = (outcome = "ok"),
                                  !.playbackTimeAtStart = <<g>>,
                                  !.videoSink = <<g>>,
                                  !.fileLoaded = TRUE,
                                  !.asyncId = @ + 1,
                                  !.tasks[t].pc = "return"]
              [] task.pc = "return" ->
                   [player EXCEPT !.videoFrameIterator = <<g>>,
                                  !.tasks[t].pc = "frames"]
              [] at("load", "frames") ->
                   play([player EXCEPT !.nextFrame = <<g>>], t)
              [] at("recovery", "duration") ->
                   LET p == IF player.playing THEN pause(player, g) ELSE player
                   IN [p EXCEPT !.totalDuration = <<g>>,
                                !.playbackTimeAtStart = <<g>>,
                                !.asyncId = @ + 1,
                                !.tasks[t].pc = "return",
                                !.tasks[t].wasPlaying = player.playing]
              [] at("recovery", "frames") ->
                   LET p == [player EXCEPT !.nextFrame = <<g>>,
                                           !.timers = @ \cup {task.rid}]
                   IN IF task.wasPlaying THEN play(p, t)
                      ELSE [p EXCEPT !.tasks[t] = IdleTask]
              [] at("video", "next") /\ outcome = "ok" ->
                   IF task.id # player.asyncId
                   THEN [player EXCEPT !.tasks[t] = IdleTask]
                   ELSE [player EXCEPT !.nextFrame = <<g>>,
                                       !.tasks[t] = IdleTask]
              [] at("audio", "next") /\ outcome = "ok" ->
                   [player EXCEPT !.tasks[t] = IdleTask]
              [] OTHER ->
                   IF task.id # player.asyncId
                   THEN [player EXCEPT !.tasks[t] = IdleTask]
                   ELSE handleLiveEdgeError(player, t)
       /\ notified' = <<>>
       /\ UNCHANGED <<srcVars, hls, hlsSource, muxer, m3u8, track, scheduled, demuxer>>

\* the timer that handleLiveEdgeError sets in its finally block fires, 500 ms
\* after recovery rid ended (lines 599-602)
LiveEdgeTimer(rid) ==
    /\ rid \in player.timers
    /\ player' = [player EXCEPT !.isHandlingLiveEdge = FALSE,
                                !.timers = @ \ {rid}]
    /\ notified' = <<>>
    /\ UNCHANGED <<srcVars, hls, hlsSource, muxer, m3u8, track, scheduled, demuxer>>

NextPlayer ==
    \/ \E t \in 1..NTasks : initMediaPlayer(t)
    \/ \E t \in 1..NTasks : render(t)
    \/ \E t \in 1..NTasks, outcome \in {"ok", "vod", "liveEdge"} : Resume(t, outcome)
    \/ \E rid \in 1..MaxRecoveries : LiveEdgeTimer(rid)

----------------------------------------------------------------------------
\* the source as constructed over a media playlist of one of the given lengths
InitFrom(lens) ==
    /\ brMode \in BrModes
    /\ mediaPlaylist \in {Playlist(0, n, e) : n \in lens, e \in BOOLEAN}
    /\ initSegmentData = NULL
    /\ segmentDataCache = {}
    /\ segmentAccessOrder = <<>>
    /\ segmentInfoMap = <<>>
    /\ knownSequences = <<>>
    /\ initialized = FALSE
    /\ refreshTimer = FALSE
    /\ isRefreshing = FALSE
    /\ nextSegmentOffset = 0
    /\ totalDurationSeconds = 0
    /\ segmentChangeCounter = 0
    /\ removedDurationSeconds = 0
    /\ disposed = FALSE
    /\ ensuring = FALSE
    /\ fetches = EmptyBag
    /\ fetchedOnce = {}
    /\ rd = IdleRd
    /\ onSegmentsAdded = FALSE
    /\ onSegmentsRemoved = FALSE
    /\ notified = <<>>
    /\ hls = HlsInit
    /\ scheduled = [timers |-> 0, refreshes |-> 0]
    /\ demuxer = [populated |-> FALSE, table |-> <<>>]
    /\ player = IdlePlayer

Init ==
    /\ InitFrom(1..MaxWin)
    /\ hlsSource = IdleSource
    /\ muxer = NULL /\ m3u8 = NULL /\ track = NULL

InitCache ==
    /\ InitFrom({CacheWin})
    /\ hlsSource = IdleSource
    /\ muxer = NULL /\ m3u8 = NULL /\ track = NULL

----------------------------------------------------------------------------
(* initialize(), after the await of the init segment fetch (lines 123-132) *)

\* startRefreshTimer after initialization: only for live streams
InitArmsTimer == ~mediaPlaylist.endList

\* setTimeout without the test of the handle
startRefreshTimerUnguarded(timer, sch) == [sch EXCEPT !.timers = @ + 1]

\* the timers after startRefreshTimer(), timer telling that the handle is set
startRefreshTimer(timer, sch) ==
    IF timer THEN sch ELSE [sch EXCEPT !.timers = @ + 1]

InitializeContinue ==
    LET add == addSegmentsFromPlaylist(mediaPlaylist, segmentInfoMap, knownSequences,
                                       InitLen, totalDurationSeconds,
                                       segmentChangeCounter)
    IN /\ initSegmentData' = InitLen
       /\ segmentInfoMap' = add.map
       /\ knownSequences' = add.known
       /\ nextSegmentOffset' = add.next
       /\ totalDurationSeconds' = add.total
       /\ segmentChangeCounter' = add.counter
       /\ initialized' = TRUE
       /\ refreshTimer' = (refreshTimer \/ InitArmsTimer)
       /\ scheduled' = IF InitArmsTimer THEN startRefreshTimer(refreshTimer, scheduled)
                       ELSE scheduled

\* ensureInitialized(): initialize() up to its await
StartInitialize ==
    /\ ~initialized
    /\ ~ensuring
    /\ ensuring' = TRUE
    /\ notified' = <<>>
    /\ UNCHANGED <<onSegmentsAdded, onSegmentsRemoved, otherVars>>
    /\ UNCHANGED <<brMode, mediaPlaylist, initSegmentData, segmentDataCache,
                   segmentAccessOrder, segmentInfoMap, knownSequences, initialized,
                   refreshTimer, isRefreshing, nextSegmentOffset,
                   totalDurationSeconds, segmentChangeCounter,
                   removedDurationSeconds, disposed, fetches, fetchedOnce, rd>>

EnsureInitialized == StartInitialize /\ UNCHANGED hls

\* the init segment fetch of an ensureInitialized call resolves or rejects
InitializeDone(ok) ==
    /\ ensuring
    /\ ensuring' = FALSE
    /\ IF ok THEN InitializeContinue
       ELSE UNCHANGED <<initSegmentData, segmentInfoMap, knownSequences,
                        nextSegmentOffset, totalDurationSeconds,
                        segmentChangeCounter, initialized, refreshTimer, scheduled>>
    /\ notified' = <<>>
    /\ UNCHANGED <<onSegmentsAdded, onSegmentsRemoved, hlsSource, muxer, m3u8, track, demuxer, player>>
    /\ UNCHANGED <<brMode, mediaPlaylist, segmentDataCache, segmentAccessOrder,
                   isRefreshing, removedDurationSeconds, disposed, fetches,
                   fetchedOnce, rd>>

EnsureInitDone(ok) == InitializeDone(ok) /\ UNCHANGED hls

----------------------------------------------------------------------------
(* The callbacks that _getDemuxer sets once the source is initialized *)

\* this.onSegmentsRemoved(expiredSequences)
RemovedCall(expiredSequences) == [cb |-> "removed", ids |-> expiredSequences]

\* this.onSegmentsAdded(newSegments, startTimeSeconds)
AddedCall(newSegments, startTimeSeconds) ==
    [cb |-> "added", segments |-> newSegments, startTimeSeconds |-> startTimeSeconds]

\* the callbacks that _getDemuxer registers (lines 1096-1103), run on the
\* invocations made by a step: removeOldFragmentsFromLookupTable drops the
\* entries of the removed segments, appendFragmentsToLookupTable adds one
\* entry for each new segment.  An entry of the table is written as the media
\* sequence of its segment; the new segments are the last of known.  Before
\* _getDemuxer has run the callbacks are not those of a demuxer.
FollowCallbacks(d, calls, known) ==
    LET removed == {c \in Range(calls) : c.cb = "removed"}
        added == {c \in Range(calls) : c.cb = "added"}
        gone == UNION {Range(c.ids) : c \in removed}
        n == IF added = {} THEN 0
             ELSE Len((CHOOSE c \in added : TRUE).segments)
    IN IF ~d.populated THEN d
       ELSE [d EXCEPT !.table = FilterSeq(@, Range(@) \ gone)
                                  \o SubSeq(known, Len(known) - n + 1, Len(known))]

\* _getDemuxer from getSegmentLookupInfo() to the await of
\* normalizeStartTimestamp (lines 1085-1089): the table is seeded with one
\* entry for each tracked segment
GetDemuxerPopulate ==
    /\ initialized
    /\ ~disposed
    /\ ~demuxer.populated
    /\ demuxer' = [populated |-> TRUE, table |-> knownSequences]
    /\ notified' = <<>>
    /\ UNCHANGED <<srcVars, hls, hlsSource, muxer, m3u8, track, scheduled, player>>

\* setOnSegmentsAdded and setOnSegmentsRemoved, called one after the other
SetCallbacks ==
    /\ initialized
    /\ ~onSegmentsAdded
    /\ onSegmentsAdded' = TRUE
    /\ onSegmentsRemoved' = TRUE
    /\ notified' = <<>>
    /\ UNCHANGED <<brMode, mediaPlaylist, initSegmentData, segmentDataCache,
                   segmentAccessOrder, segmentInfoMap, knownSequences, initialized,
                   refreshTimer, isRefreshing, nextSegmentOffset,
                   totalDurationSeconds, segmentChangeCounter,
                   removedDurationSeconds, disposed, ensuring, fetches,
                   fetchedOnce, rd, hls, otherVars>>

----------------------------------------------------------------------------
(* The refresh timer and refreshPlaylist *)

\* the timer callback (lines 216-219) and refreshPlaylist up to its await
TimerFire ==
    /\ refreshTimer
    /\ refreshTimer' = FALSE
    /\ isRefreshing' = (isRefreshing \/ ~disposed)
    /\ scheduled' = [timers |-> scheduled.timers - 1,
                     refreshes |-> IF isRefreshing \/ disposed THEN scheduled.refreshes
                                   ELSE scheduled.refreshes + 1]
    /\ notified' = <<>>
    /\ UNCHANGED <<onSegmentsAdded, onSegmentsRemoved, hls, hlsSource, muxer, m3u8, track, demuxer, player>>
    /\ UNCHANGED <<brMode, mediaPlaylist, initSegmentData, segmentDataCache,
                   segmentAccessOrder, segmentInfoMap, knownSequences, initialized,
                   nextSegmentOffset, totalDurationSeconds, segmentChangeCounter,
                   removedDurationSeconds, disposed, ensuring, fetches,
                   fetchedOnce, rd>>

\* whether refreshPlaylist rearms the timer when its attempt ends with outcome
\* "fail" (fetchTextWithTimeout returned null), "master" (not a media playlist),
\* "parse" (parsePlaylist threw) or "media" (a media playlist with endList e)
RefreshRearms(outcome, e) ==
    CASE outcome = "fail" -> FALSE
      [] outcome = "master" -> FALSE
      [] outcome = "parse" -> ~disposed
      [] OTHER -> ~e /\ ~disposed

\* a refresh attempt that does not get a media playlist
RefreshFail(outcome) ==
    /\ isRefreshing
    /\ isRefreshing' = FALSE
    /\ refreshTimer' = (refreshTimer \/ RefreshRearms(outcome, FALSE))
    /\ scheduled' = LET ended == [scheduled EXCEPT !.refreshes = @ - 1]
                    IN IF RefreshRearms(outcome, FALSE)
                       THEN startRefreshTimer(refreshTimer, ended) ELSE ended
    /\ notified' = <<>>
    /\ UNCHANGED <<onSegmentsAdded, onSegmentsRemoved, hls, hlsSource, muxer, m3u8, track, demuxer, player>>
    /\ UNCHANGED <<brMode, mediaPlaylist, initSegmentData, segmentDataCache,
                   segmentAccessOrder, segmentInfoMap, knownSequences, initialized,
                   nextSegmentOffset, totalDurationSeconds, segmentChangeCounter,
                   removedDurationSeconds, disposed, ensuring, fetches,
                   fetchedOnce, rd>>

\* prefetchNewSegments up to the awaits of its fetches
RECURSIVE AddFetches(_, _)
AddFetches(b, s) ==
    IF s = <<>> THEN b ELSE AddFetches(BagAdd(b, FetchRec(Head(s), "prefetch")), Tail(s))

prefetchNewSegments(b, known, cache) ==
    LET segmentsToFetch == FilterSeq(known, Range(known) \ cache)
    IN AddFetches(b, SubSeq(segmentsToFetch, 1,
                            IF Len(segmentsToFetch) < prefetchLimit
                            THEN Len(segmentsToFetch) ELSE prefetchLimit))

\* a refresh attempt that gets the media playlist snapshot [m, n, e] (lines 242-264)
RefreshMedia(m, n, e) ==
    /\ isRefreshing
    /\ LET playlist == Playlist(m, n, e)
           rem == removeExpiredSegments(playlist)
           add == addSegmentsFromPlaylist(playlist, rem.map, rem.known,
                                          nextSegmentOffset, totalDurationSeconds,
                                          segmentChangeCounter)
           gone == Range(rem.expired)
           left == DetachBag(fetches, gone, segmentInfoMap)
       IN /\ mediaPlaylist' = playlist
          /\ segmentInfoMap' = add.map
          /\ knownSequences' = add.known
          /\ segmentDataCache' = rem.cache
          /\ segmentAccessOrder' = rem.order
          /\ removedDurationSeconds' = rem.removed
          /\ nextSegmentOffset' = add.next
          /\ totalDurationSeconds' = add.total
          /\ segmentChangeCounter' = add.counter
          /\ fetches' = IF add.new # <<>>
                        THEN prefetchNewSegments(left, add.known, rem.cache)
                        ELSE left
          /\ fetchedOnce' = fetchedOnce \ gone
          /\ rd' = DetachRd(rd, gone, segmentInfoMap)
          /\ notified' =
                (IF rem.expired # <<>> /\ onSegmentsRemoved
                 THEN <<RemovedCall(rem.expired)>> ELSE <<>>)
                \o (IF add.new # <<>> /\ onSegmentsAdded
                    THEN <<AddedCall(add.new, add.startTimeSeconds)>> ELSE <<>>)
    /\ isRefreshing' = FALSE
    /\ refreshTimer' = (refreshTimer \/ RefreshRearms("media", e))
    /\ scheduled' = LET ended == [scheduled EXCEPT !.refreshes = @ - 1]
                    IN IF RefreshRearms("media", e)
                       THEN startRefreshTimer(refreshTimer, ended) ELSE ended
    /\ demuxer' = FollowCallbacks(demuxer, notified', knownSequences')
    /\ UNCHANGED <<onSegmentsAdded, onSegmentsRemoved, hls, hlsSource, muxer, m3u8, track, player>>
    /\ UNCHANGED <<brMode, initSegmentData, initialized, disposed, ensuring>>

----------------------------------------------------------------------------
(* _dispose, called by Input.dispose after it has set Source._disposed *)

SourceDispose ==
    /\ ~disposed
    /\ disposed' = TRUE
    /\ refreshTimer' = FALSE
    /\ initSegmentData' = NULL
    /\ segmentDataCache' = {}
    /\ segmentAccessOrder' = <<>>
    /\ segmentInfoMap' = <<>>
    /\ knownSequences' = <<>>
    /\ fetches' = DetachBag(fetches, DOMAIN segmentInfoMap, segmentInfoMap)
    /\ rd' = DetachRd(rd, DOMAIN segmentInfoMap, segmentInfoMap)
    /\ fetchedOnce' = {}
    /\ scheduled' = IF refreshTimer THEN [scheduled EXCEPT !.timers = @ - 1]
                    ELSE scheduled
    /\ notified' = <<>>
    /\ UNCHANGED <<onSegmentsAdded, onSegmentsRemoved, hlsSource, muxer, m3u8, track, demuxer, player>>
    /\ UNCHANGED <<brMode, mediaPlaylist, initialized, isRefreshing,
                   nextSegmentOffset, totalDurationSeconds, segmentChangeCounter,
                   removedDurationSeconds, ensuring>>

\* dispose of the variant input alone
Dispose == SourceDispose /\ UNCHANGED hls

----------------------------------------------------------------------------
(* readSegmentData(segmentId) and the segment fetches in flight *)

\* fetchSegmentBySequence up to its await (lines 462-479)
ReadSegmentData(seq) ==
    /\ seq \in DOMAIN segmentInfoMap
    /\ IF seq \in segmentDataCache
       THEN /\ segmentAccessOrder' = updateLruAccess(segmentAccessOrder, seq)
            /\ segmentAccessOrder' # segmentAccessOrder
            /\ UNCHANGED fetches
       ELSE /\ InFlight("direct") = 0
            /\ fetches' = BagAdd(fetches, FetchRec(seq, "direct"))
            /\ UNCHANGED segmentAccessOrder
    /\ notified' = <<>>
    /\ UNCHANGED <<onSegmentsAdded, onSegmentsRemoved, hls, otherVars>>
    /\ UNCHANGED <<brMode, mediaPlaylist, initSegmentData, segmentDataCache,
                   segmentInfoMap, knownSequences, initialized, refreshTimer,
                   isRefreshing, nextSegmentOffset, totalDurationSeconds,
                   segmentChangeCounter, removedDurationSeconds, disposed,
                   ensuring, fetchedOnce, rd>>

\* a segment fetch in flight resolves (ok) or rejects
FetchComplete(r, ok) ==
    /\ r \in DOMAIN fetches
    /\ fetches' = BagRemove(fetches, r)
    /\ IF ok
       THEN LET done == FetchDone(r.seq, r.att, r.dstart)
            IN /\ segmentDataCache' = done.cache
               /\ segmentAccessOrder' = done.order
               /\ segmentInfoMap' = done.map
               /\ fetchedOnce' = IF r.att THEN fetchedOnce \cup {r.seq} ELSE fetchedOnce
       ELSE UNCHANGED <<segmentDataCache, segmentAccessOrder, segmentInfoMap,
                        fetchedOnce>>
    /\ notified' = <<>>
    /\ UNCHANGED <<onSegmentsAdded, onSegmentsRemoved, hls, otherVars>>
    /\ UNCHANGED <<brMode, mediaPlaylist, initSegmentData, knownSequences,
                   initialized, refreshTimer, isRefreshing, nextSegmentOffset,
                   totalDurationSeconds, segmentChangeCounter,
                   removedDurationSeconds, disposed, ensuring, rd>>

----------------------------------------------------------------------------
(* _read(start, end) *)

Min(a, b) == IF a < b THEN a ELSE b
Max(a, b) == IF a > b THEN a ELSE b

\* a byte of the result: byte idx of the buffer src, which is the init segment
\* (NULL) or the data of a media sequence; ZeroByte is a byte of the result
\* buffer that nothing was copied to
InitByte(idx) == <<NULL, idx>>
ZeroByte == <<NULL, NULL>>

\* buffer.subarray(from, from + n) of a buffer of the given length, as copied by
\* result.set
Subarray(src, length, from, n) ==
    [k \in 1..n |-> IF from + k - 1 < length THEN <<src, from + k - 1>> ELSE ZeroByte]

\* the ReadResult returned (result "data": the first n bytes and offset: start),
\* null, or the error thrown
Done(r, result, n) ==
    [IdleRd EXCEPT !.pc = "done", !.start = r.start, !.end = r.end,
                   !.result = result, !.written = n, !.nfetch = r.nfetch,
                   !.bytes = IF result = "data" THEN SubSeq(r.bytes, 1, n) ELSE <<>>,
                   !.offset = IF result = "data" THEN r.start ELSE NULL]

\* the body of the loop after fetchSegmentBySequence returned (lines 675-693):
\* "continue" and "break" with the bytes written so far
AfterFetch(r, written, seq, off) ==
    LET cur == r.start + written
        overlapStart == Max(off.start, cur)
        overlapLength == Min(off.end, r.end) - overlapStart
        segmentOffset == overlapStart - off.start
    IN IF off.end <= cur THEN [brk |-> FALSE, written |-> written, copied |-> <<>>]
       ELSE IF off.start >= r.end THEN [brk |-> TRUE, written |-> written, copied |-> <<>>]
       ELSE IF overlapLength > 0
       THEN [brk |-> FALSE, written |-> written + overlapLength,
             copied |-> Subarray(seq, SegSize(seq), segmentOffset, overlapLength)]
       ELSE [brk |-> FALSE, written |-> written, copied |-> <<>>]

\* whether the loop skips ("continue"), stops ("break") or fetches segment seq
\* (lines 634-671)
BeforeFetch(r, written, seq, map) ==
    LET cur == r.start + written
        off == map[seq]
        seqIndex == IndexOf(knownSequences, seq)
        allPreviousSizesKnown ==
            \A j \in 1..(seqIndex - 1) :
                /\ knownSequences[j] \in DOMAIN map
                /\ map[knownSequences[j]].end > map[knownSequences[j]].start
    IN IF HasByteRange(seq) \/ off.end > off.start
       THEN IF off.end <= cur THEN "continue"
            ELSE IF off.start >= r.end THEN "break" ELSE "fetch"
       ELSE IF allPreviousSizesKnown /\ off.start >= r.end THEN "break" ELSE "fetch"

\* the for-of loop over the array r.iter from index i, up to its next real await
RECURSIVE LoopRun(_, _, _, _, _, _)
LoopRun(r, i, written, order, map, cache) ==
    IF i > Len(r.iter) \/ written >= r.end - r.start
    THEN [kind |-> "finished", written |-> written, order |-> order, i |-> i,
          bytes |-> r.bytes]
    ELSE
      LET seq == r.iter[i]
      IN IF seq \notin DOMAIN map THEN LoopRun(r, i + 1, written, order, map, cache)
         ELSE
           LET what == BeforeFetch(r, written, seq, map)
           IN IF what = "continue" THEN LoopRun(r, i + 1, written, order, map, cache)
              ELSE IF what = "break"
              THEN [kind |-> "finished", written |-> written, order |-> order, i |-> i,
                    bytes |-> r.bytes]
              ELSE IF seq \in cache
              THEN LET af == AfterFetch(r, written, seq, map[seq])
                       order2 == updateLruAccess(order, seq)
                   IN IF af.brk
                      THEN [kind |-> "finished", written |-> af.written,
                            order |-> order2, i |-> i, bytes |-> r.bytes]
                      ELSE LoopRun([r EXCEPT !.bytes = @ \o af.copied], i + 1,
                                   af.written, order2, map, cache)
              ELSE [kind |-> "suspend", written |-> written, order |-> order, i |-> i,
                    bytes |-> r.bytes]

\* a faulty variant of GapCheck: a live playlist is treated like a VOD one
GapCheckAsVod(r, written) ==
    IF Len(knownSequences) = 0 THEN "go on"
    ELSE
      LET firstInfo == segmentInfoMap[knownSequences[1]]
          currentReadStart == r.start + written
      IN IF currentReadStart < firstInfo.start /\ currentReadStart >= initSegmentData
         THEN IF r.end <= firstInfo.start
              THEN IF written = 0 THEN "null" ELSE "data"
              ELSE "go on"
         ELSE "go on"

\* the gap check before the loop (lines 592-620): "throw", "null", "data" or "go on"
GapCheck(r, written) ==
    IF Len(knownSequences) = 0 THEN "go on"
    ELSE
      LET firstInfo == segmentInfoMap[knownSequences[1]]
          currentReadStart == r.start + written
      IN IF currentReadStart < firstInfo.start /\ currentReadStart >= initSegmentData
         THEN IF ~mediaPlaylist.endList THEN "throw"
              ELSE IF r.end <= firstInfo.start
                   THEN IF written = 0 THEN "null" ELSE "data"
                   ELSE "go on"
         ELSE "go on"

\* a faulty variant of NothingWritten: no wait at the live edge
NothingWrittenNoWait(r, map, cache) ==
    IF Len(knownSequences) = 0 THEN "null"
    ELSE
      LET lastSeq == knownSequences[Len(knownSequences)]
          firstInfo == map[knownSequences[1]]
          lastInfo == map[lastSeq]
          lastSegmentFetched == lastSeq \in cache
          lastSegmentHasByteRange == HasByteRange(lastSeq)
      IN IF r.start < firstInfo.start /\ ~mediaPlaylist.endList THEN "throw"
         ELSE IF ~lastSegmentFetched /\ ~lastSegmentHasByteRange
                 /\ r.start >= lastInfo.start
         THEN "fetch last"
         ELSE "null"

\* what _read does when the loop wrote nothing (lines 696-735)
NothingWritten(r, map, cache) ==
    IF Len(knownSequences) = 0 THEN "null"
    ELSE
      LET lastSeq == knownSequences[Len(knownSequences)]
          firstInfo == map[knownSequences[1]]
          lastInfo == map[lastSeq]
          lastSegmentFetched == lastSeq \in cache
          lastSegmentHasByteRange == HasByteRange(lastSeq)
          lastSegmentEndKnown == lastSegmentFetched \/ lastSegmentHasByteRange
      IN IF r.start < firstInfo.start /\ ~mediaPlaylist.endList THEN "throw"
         ELSE IF ~mediaPlaylist.endList /\ lastSegmentEndKnown /\ r.start >= lastInfo.end
         THEN "wait"
         ELSE IF ~lastSegmentFetched /\ ~lastSegmentHasByteRange
                 /\ r.start >= lastInfo.start
         THEN "fetch last"
         ELSE "null"

\* the state of the read once the loop has run from index i with the given
\* map, cache and access order: rd' and segmentAccessOrder'
Continue(r, i, written, order, map, cache) ==
    LET run == LoopRun(r, i, written, order, map, cache)
        what == NothingWritten(r, map, cache)
    IN /\ segmentAccessOrder' = run.order
       /\ rd' =
            IF run.kind = "suspend"
            THEN [r EXCEPT !.pc = "fetch", !.idx = run.i, !.written = run.written,
                           !.seq = r.iter[run.i], !.att = TRUE, !.dstart = 0,
                           !.nfetch = @ + 1, !.bytes = run.bytes]
            ELSE IF run.written > 0
            THEN Done([r EXCEPT !.bytes = run.bytes], "data", run.written)
            ELSE IF what = "throw" THEN Done(r, "behind_window", 0)
            ELSE IF what = "wait"
            THEN [IdleRd EXCEPT !.pc = "wait", !.start = r.start, !.end = r.end,
                                !.counter = segmentChangeCounter,
                                !.nfetch = r.nfetch]
            ELSE IF what = "fetch last"
            THEN [IdleRd EXCEPT !.pc = "tailfetch", !.start = r.start, !.end = r.end,
                                !.seq = knownSequences[Len(knownSequences)],
                                !.att = TRUE, !.nfetch = r.nfetch + 1]
            ELSE Done(r, "null", 0)

\* _read is called: initialize() returns at once or awaits the init segment
ReadCall(start, end) ==
    /\ rd.pc = "idle"
    /\ rd' = [IdleRd EXCEPT !.pc = IF initialized THEN "eval" ELSE "init",
                            !.start = start, !.end = end]
    /\ notified' = <<>>
    /\ UNCHANGED <<onSegmentsAdded, onSegmentsRemoved, hls, otherVars>>
    /\ UNCHANGED <<brMode, mediaPlaylist, initSegmentData, segmentDataCache,
                   segmentAccessOrder, segmentInfoMap, knownSequences, initialized,
                   refreshTimer, isRefreshing, nextSegmentOffset,
                   totalDurationSeconds, segmentChangeCounter,
                   removedDurationSeconds, disposed, ensuring, fetches,
                   fetchedOnce>>

\* the init segment fetch of the read's initialize() resolves or rejects
ReadInitDone(ok) ==
    /\ rd.pc = "init"
    /\ IF ok
       THEN /\ InitializeContinue
            /\ rd' = [rd EXCEPT !.pc = "eval"]
       ELSE /\ rd' = Done(rd, "error", 0)
            /\ UNCHANGED <<initSegmentData, segmentInfoMap, knownSequences,
                           nextSegmentOffset, totalDurationSeconds,
                           segmentChangeCounter, initialized, refreshTimer, scheduled>>
    /\ notified' = <<>>
    /\ UNCHANGED <<onSegmentsAdded, onSegmentsRemoved, hls, hlsSource, muxer, m3u8, track, demuxer, player>>
    /\ UNCHANGED <<brMode, mediaPlaylist, segmentDataCache, segmentAccessOrder,
                   isRefreshing, removedDurationSeconds, disposed, ensuring,
                   fetches, fetchedOnce>>

\* _read from line 563 to its first real await or its end
ReadEval ==
    /\ rd.pc = "eval"
    /\ LET requestedLength == rd.end - rd.start
           written == IF initSegmentData # NULL /\ rd.start < initSegmentData
                      THEN Min(rd.end, initSegmentData) - rd.start ELSE 0
           gap == GapCheck(rd, written)
           fromInit == [rd EXCEPT !.bytes = Subarray(NULL, initSegmentData,
                                                     rd.start, written)]
       IN IF initSegmentData = NULL
          THEN rd' = Done(rd, "error", 0) /\ UNCHANGED segmentAccessOrder
          ELSE IF written >= requestedLength
          THEN rd' = Done(fromInit, "data", written) /\ UNCHANGED segmentAccessOrder
          ELSE IF gap = "throw"
          THEN rd' = Done(rd, "behind_window", 0) /\ UNCHANGED segmentAccessOrder
          ELSE IF gap = "null"
          THEN rd' = Done(rd, "null", 0) /\ UNCHANGED segmentAccessOrder
          ELSE IF gap = "data"
          THEN rd' = Done(fromInit, "data", written) /\ UNCHANGED segmentAccessOrder
          ELSE Continue([fromInit EXCEPT !.iter = knownSequences], 1, written,
                        segmentAccessOrder, segmentInfoMap, segmentDataCache)
    /\ notified' = <<>>
    /\ UNCHANGED <<onSegmentsAdded, onSegmentsRemoved, hls, otherVars>>
    /\ UNCHANGED <<brMode, mediaPlaylist, initSegmentData, segmentDataCache,
                   segmentInfoMap, knownSequences, initialized, refreshTimer,
                   isRefreshing, nextSegmentOffset, totalDurationSeconds,
                   segmentChangeCounter, removedDurationSeconds, disposed,
                   ensuring, fetches, fetchedOnce>>

\* the segment fetch the loop awaits resolves or rejects (line 673)
ReadFetchDone(ok) ==
    /\ rd.pc = "fetch"
    /\ IF ok
       THEN LET done == FetchDone(rd.seq, rd.att, rd.dstart)
                af == AfterFetch(rd, rd.written, rd.seq,
                                 [start |-> done.start, end |-> done.end])
                r == [rd EXCEPT !.bytes = @ \o af.copied]
            IN /\ segmentDataCache' = done.cache
               /\ segmentInfoMap' = done.map
               /\ fetchedOnce' = IF rd.att THEN fetchedOnce \cup {rd.seq} ELSE fetchedOnce
               /\ IF af.brk
                  THEN Continue(r, Len(rd.iter) + 1, af.written, done.order,
                                done.map, done.cache)
                  ELSE Continue(r, rd.idx + 1, af.written, done.order,
                                done.map, done.cache)
       ELSE /\ rd' = Done(rd, "error", 0)
            /\ UNCHANGED <<segmentDataCache, segmentAccessOrder, segmentInfoMap,
                           fetchedOnce>>
    /\ notified' = <<>>
    /\ UNCHANGED <<onSegmentsAdded, onSegmentsRemoved, hls, otherVars>>
    /\ UNCHANGED <<brMode, mediaPlaylist, initSegmentData, knownSequences,
                   initialized, refreshTimer, isRefreshing, nextSegmentOffset,
                   totalDurationSeconds, segmentChangeCounter,
                   removedDurationSeconds, disposed, ensuring, fetches>>

\* the fetch of the last segment resolves or rejects (line 728), then _read again
ReadTailDone(ok) ==
    /\ rd.pc = "tailfetch"
    /\ IF ok
       THEN LET done == FetchDone(rd.seq, rd.att, rd.dstart)
            IN /\ segmentDataCache' = done.cache
               /\ segmentAccessOrder' = done.order
               /\ segmentInfoMap' = done.map
               /\ fetchedOnce' = IF rd.att THEN fetchedOnce \cup {rd.seq} ELSE fetchedOnce
               /\ rd' = [IdleRd EXCEPT !.pc = "eval", !.start = rd.start,
                                       !.end = rd.end, !.nfetch = rd.nfetch]
       ELSE /\ rd' = Done(rd, "error", 0)
            /\ UNCHANGED <<segmentDataCache, segmentAccessOrder, segmentInfoMap,
                           fetchedOnce>>
    /\ notified' = <<>>
    /\ UNCHANGED <<onSegmentsAdded, onSegmentsRemoved, hls, otherVars>>
    /\ UNCHANGED <<brMode, mediaPlaylist, initSegmentData, knownSequences,
                   initialized, refreshTimer, isRefreshing, nextSegmentOffset,
                   totalDurationSeconds, segmentChangeCounter,
                   removedDurationSeconds, disposed, ensuring, fetches>>

\* one run of check() in waitForNewSegments (lines 334-355)
PollOutcome(r) ==
    IF disposed THEN "retry"
    ELSE IF segmentChangeCounter > r.counter THEN "retry"
    ELSE IF r.waited + checkInterval >= maxWait THEN "timeout"
    ELSE "again"

PollCheck ==
    /\ rd.pc = "wait"
    /\ LET out == PollOutcome(rd)
       IN rd' = IF out = "retry"
                THEN [IdleRd EXCEPT !.pc = "eval", !.start = rd.start,
                                    !.end = rd.end, !.nfetch = rd.nfetch]
                ELSE IF out = "timeout"
                THEN [Done(rd, "timeout", 0) EXCEPT !.waited = rd.waited + checkInterval,
                                                     !.counter = rd.counter]
                ELSE [rd EXCEPT !.waited = @ + checkInterval]
    /\ notified' = <<>>
    /\ UNCHANGED <<onSegmentsAdded, onSegmentsRemoved, hls, otherVars>>
    /\ UNCHANGED <<brMode, mediaPlaylist, initSegmentData, segmentDataCache,
                   segmentAccessOrder, segmentInfoMap, knownSequences, initialized,
                   refreshTimer, isRefreshing, nextSegmentOffset,
                   totalDurationSeconds, segmentChangeCounter,
                   removedDurationSeconds, disposed, ensuring, fetches,
                   fetchedOnce>>

----------------------------------------------------------------------------
(* The FragmentedMediaSource interface: synchronous queries *)

\* getSegmentByteOffset(segmentId); NULL stands for undefined
getSegmentByteOffset(segmentId) ==
    IF segmentId \notin DOMAIN segmentInfoMap THEN NULL
    ELSE LET isFetched == segmentId \in segmentDataCache
             hasByteRange == HasByteRange(segmentId)
         IN IF isFetched \/ hasByteRange THEN segmentInfoMap[segmentId].start
            ELSE NULL

----------------------------------------------------------------------------
(* The operations of HlsInput.  The source variables hold the state of the  *)
(* source of the variant input built last.                                  *)

FacadeOnly == notified' = <<>> /\ UNCHANGED <<srcVars, otherVars>>

\* the media playlists a variant or the manifest may hold when it is loaded
LoadedPlaylists == {Playlist(0, n, e) : n \in 1..MaxWin, e \in BOOLEAN}

Ops == {"getVariants", "getSelectedVariant", "selectVariant", "getTracks",
        "computeDuration", "isLive"}

\* new HlsVariantInput(mediaPlaylist, ...): a new HlsSegmentSource; startInit
\* when its ensureInitialized() is called at once
NewSource(pl, startInit) ==
    /\ mediaPlaylist' = pl
    /\ initSegmentData' = NULL
    /\ segmentDataCache' = {}
    /\ segmentAccessOrder' = <<>>
    /\ segmentInfoMap' = <<>>
    /\ knownSequences' = <<>>
    /\ initialized' = FALSE
    /\ refreshTimer' = FALSE
    /\ isRefreshing' = FALSE
    /\ nextSegmentOffset' = 0
    /\ totalDurationSeconds' = 0
    /\ segmentChangeCounter' = 0
    /\ removedDurationSeconds' = 0
    /\ disposed' = FALSE
    /\ ensuring' = startInit
    /\ fetches' = EmptyBag
    /\ fetchedOnce' = {}
    /\ rd' = IdleRd
    /\ onSegmentsAdded' = FALSE
    /\ onSegmentsRemoved' = FALSE
    /\ scheduled' = [timers |-> 0, refreshes |-> 0]
    /\ notified' = <<>>
    /\ UNCHANGED <<brMode, hlsSource, muxer, m3u8, track, demuxer, player>>

\* the operation in slot c returns or throws: returned is <<op, kind, value>>
Return(h, c, ret) ==
    [h EXCEPT !.calls[c] = IdleCall, !.returned = <<h.calls[c].op>> \o ret]

\* the step returns nothing
Quiet(h) == [h EXCEPT !.returned = <<>>]

\* a faulty variant of HlsInitialize: the promise is kept only once it settled
HlsInitializeUnmemoized(h) ==
    IF h.initPromise \in {"none", "pending"}
    THEN [h EXCEPT !.initPromise = "pending", !.manifestFetches = @ + 1]
    ELSE h

\* initialize() up to its await (lines 131-136): the promise is created, and
\* the manifest fetched, by the first call only
HlsInitialize(h) ==
    IF h.initPromise = "none"
    THEN [h EXCEPT !.initPromise = "pending", !.manifestFetches = @ + 1]
    ELSE h

\* a facade operation is called: each starts with `await this.initialize()`
\* (getInput for the track, duration and live queries)
HlsCall(c, op, v) ==
    /\ hls.calls[c].pc = "idle"
    /\ hls' = [Quiet(HlsInitialize(hls)) EXCEPT
                  !.calls[c] = [op |-> op, pc |-> "init", v |-> v]]
    /\ FacadeOnly

\* the manifest fetch ends (lines 135-159): failure, a master playlist (the
\* variant of highest bandwidth is selected) or a media playlist
HlsManifestDone(kind, pl) ==
    /\ hls.initPromise = "pending"
    /\ hls' = CASE kind = "fail" -> [Quiet(hls) EXCEPT !.initPromise = "rejected"]
                [] kind = "master" ->
                     [Quiet(hls) EXCEPT !.initPromise = "resolved", !.master = TRUE,
                                        !.selectedVariant = NVariants]
                [] OTHER ->
                     [Quiet(hls) EXCEPT !.initPromise = "resolved",
                                        !.mediaPlaylist = pl, !.selectedVariant = 0]
    /\ FacadeOnly

\* getInput has its input (lines 223-225 or 257-263) and the operation in slot
\* c goes on: h is the facade with the input, fresh says that the input was
\* built in this step over the playlist pl
FinishGetInput(c, h, fresh, pl) ==
    LET op == h.calls[c].op
    IN /\ hls' =
            CASE op = "getTracks" -> Return(h, c, <<"input", h.selectedInput.from>>)
              [] op = "isLive" ->
                   Return(h, c, <<"live", IF h.currentMediaPlaylist # NoPlaylist
                                          THEN ~h.currentMediaPlaylist.endList
                                          ELSE FALSE>>)
              [] OTHER -> [Quiet(h) EXCEPT !.calls[c].pc = "live"]
       /\ IF fresh THEN NewSource(pl, op = "computeDuration")
          ELSE IF op = "computeDuration" /\ ~initialized /\ ~ensuring
          THEN StartInitialize
          ELSE FacadeOnly

\* no operation awaits the source of the input that a new input replaces
NoneAwaitsSource == \A d \in 1..NCallers : hls.calls[d].pc # "live"

\* selectVariant after its await (lines 199-211)
SelectVariantContinue(c) ==
    LET v == hls.calls[c].v
    IN IF ~(hls.master /\ v \in 1..NVariants)
       THEN hls' = Return(hls, c, <<"error">>) /\ FacadeOnly
       ELSE IF hls.selectedInput.built /\ hls.selectedVariant # v
       THEN /\ hls' = Return([hls EXCEPT !.selectedInput = NoInput,
                                         !.selectedVariant = v,
                                         !.lastDuration = NULL], c, <<"selected", v>>)
            /\ SourceDispose
       ELSE /\ hls' = Return([hls EXCEPT !.selectedVariant = v,
                                         !.lastDuration =
                                             IF hls.selectedVariant # v THEN NULL ELSE @],
                             c, <<"selected", v>>)
            /\ FacadeOnly

\* getInput after `await this.initialize()` (lines 221-254)
GetInputContinue(c) ==
    IF hls.selectedInput.built THEN FinishGetInput(c, hls, FALSE, NoPlaylist)
    ELSE IF hls.mediaPlaylist # NoPlaylist
    THEN /\ NoneAwaitsSource
         /\ FinishGetInput(c, [hls EXCEPT !.currentMediaPlaylist = hls.mediaPlaylist,
                                          !.selectedInput = [built |-> TRUE, from |-> 0]],
                           TRUE, hls.mediaPlaylist)
    ELSE IF hls.selectedVariant # 0
    THEN /\ hls' = [Quiet(hls) EXCEPT !.calls[c].pc = "media",
                                      !.calls[c].v = hls.selectedVariant]
         /\ FacadeOnly
    ELSE hls' = Return(hls, c, <<"error">>) /\ FacadeOnly

\* the operation in slot c resumes after `await this.initialize()`
HlsAfterInit(c) ==
    /\ hls.calls[c].pc = "init"
    /\ hls.initPromise \in {"resolved", "rejected"}
    /\ LET op == hls.calls[c].op
       IN IF hls.initPromise = "rejected"
          THEN hls' = Return(hls, c, <<"error">>) /\ FacadeOnly
          ELSE IF op = "getVariants"
          THEN /\ hls' = Return(hls, c, <<"variants", IF hls.master THEN NVariants ELSE 0>>)
               /\ FacadeOnly
          ELSE IF op = "getSelectedVariant"
          THEN hls' = Return(hls, c, <<"variant", hls.selectedVariant>>) /\ FacadeOnly
          ELSE IF op = "selectVariant" THEN SelectVariantContinue(c)
          ELSE GetInputContinue(c)

\* the fetch of the variant's media playlist ends (lines 236-263); the variant
\* has no separate audio rendition
HlsMediaDone(c, ok, pl) ==
    /\ hls.calls[c].pc = "media"
    /\ IF ok
       THEN /\ NoneAwaitsSource
            /\ FinishGetInput(c, [hls EXCEPT !.currentMediaPlaylist = pl,
                                             !.selectedInput =
                                                 [built |-> TRUE, from |-> hls.calls[c].v]],
                              TRUE, pl)
       ELSE hls' = Return(hls, c, <<"error">>) /\ FacadeOnly

\* the init segment fetch of the source ends while computeDuration calls await
\* getLiveDuration (hls-variant-input.ts lines 1038-1041)
HlsSourceInitDone(ok) ==
    /\ InitializeDone(ok)
    /\ hls' = IF ok THEN Quiet(hls)
              ELSE [hls EXCEPT !.calls =
                                  [c \in 1..NCallers |->
                                      IF hls.calls[c].pc = "live" THEN IdleCall
                                      ELSE hls.calls[c]],
                               !.returned =
                                  IF \E c \in 1..NCallers : hls.calls[c].pc = "live"
                                  THEN <<"computeDuration", "error">> ELSE <<>>]

\* computeDuration returns getTotalDurationSeconds() of the source (line 408)
HlsLiveReturn(c) ==
    /\ hls.calls[c].pc = "live"
    /\ initialized
    /\ hls' = Return([hls EXCEPT !.lastDuration = totalDurationSeconds], c,
                     <<"duration", totalDurationSeconds>>)
    /\ FacadeOnly

\* HlsInput.dispose (lines 447-455)
HlsDispose ==
    /\ ~hls.disposed
    /\ hls' = [Quiet(hls) EXCEPT !.disposed = TRUE, !.selectedInput = NoInput]
    /\ IF hls.selectedInput.built THEN SourceDispose ELSE FacadeOnly

----------------------------------------------------------------------------
(* The environment *)

\* the playlist snapshots a refresh may get: the media sequence never decreases
Snapshots ==
    {Playlist(mediaPlaylist.mediaSequence + a, n, e) :
        a \in Advances, n \in 1..MaxWin, e \in BOOLEAN}

ReadRanges == {<<a, a + n>> : a \in 0..MaxOff, n \in 1..MaxReadLen}

\* the timer callback runs while fewer than cap changes were seen and no
\* prefetch is pending
RefreshAllowed(cap) == segmentChangeCounter < cap /\ fetches = EmptyBag

(* The life cycle of the source without _read: initialization, refreshes,  *)
(* segment fetches through readSegmentData, prefetches, dispose.           *)

Next ==
    \/ EnsureInitialized
    \/ \E ok \in BOOLEAN : EnsureInitDone(ok)
    \/ (TimerFire /\ RefreshAllowed(MaxChanges))
    \/ \E outcome \in {"fail", "master", "parse"} : RefreshFail(outcome)
    \/ \E p \in Snapshots : RefreshMedia(p.mediaSequence, p.len, p.endList)
    \/ Dispose
    \/ SetCallbacks
    \/ \E seq \in DOMAIN segmentInfoMap : ReadSegmentData(seq)
    \/ \E r \in DOMAIN fetches, ok \in BOOLEAN : FetchComplete(r, ok)

Spec == Init /\ [][Next]_vars

(* Initialization, the callbacks, refreshes with their prefetches, and      *)
(* dispose.                                                                *)

NextRefresh ==
    \/ EnsureInitialized
    \/ \E ok \in BOOLEAN : EnsureInitDone(ok)
    \/ SetCallbacks
    \/ (TimerFire /\ RefreshAllowed(RefreshChanges))
    \/ \E outcome \in {"fail", "master", "parse"} : RefreshFail(outcome)
    \/ \E p \in Snapshots : RefreshMedia(p.mediaSequence, p.len, p.endList)
    \/ Dispose
    \/ \E r \in DOMAIN fetches, ok \in BOOLEAN : FetchComplete(r, ok)

SpecRefresh == Init /\ [][NextRefresh]_vars

(* The set-up of the demuxer of a live source against the refreshes:       *)
(* _getDemuxer registers its callbacks after the table is populated.       *)

NextDemuxer ==
    \/ EnsureInitialized
    \/ \E ok \in BOOLEAN : EnsureInitDone(ok)
    \/ GetDemuxerPopulate
    \/ (demuxer.populated /\ SetCallbacks)
    \/ (TimerFire /\ RefreshAllowed(RefreshChanges))
    \/ \E outcome \in {"fail", "master", "parse"} : RefreshFail(outcome)
    \/ \E p \in Snapshots : RefreshMedia(p.mediaSequence, p.len, p.endList)

SpecDemuxer ==
    /\ InitFrom(1..MaxWin)
    /\ ~mediaPlaylist.endList
    /\ hlsSource = IdleSource
    /\ muxer = NULL /\ m3u8 = NULL /\ track = NULL
    /\ [][NextDemuxer]_vars

(* Refreshes that arrive while the prefetches of earlier refreshes are     *)
(* still in flight.                                                        *)

NextPrefetch ==
    \/ EnsureInitialized
    \/ \E ok \in BOOLEAN : EnsureInitDone(ok)
    \/ (TimerFire /\ segmentChangeCounter < PrefetchChanges)
    \/ \E outcome \in {"fail", "master", "parse"} : RefreshFail(outcome)
    \/ \E p \in Snapshots : RefreshMedia(p.mediaSequence, p.len, p.endList)
    \/ \E r \in DOMAIN fetches, ok \in BOOLEAN : FetchComplete(r, ok)

SpecPrefetch == Init /\ [][NextPrefetch]_vars

(* HlsSource.resolve() on a master playlist: every list of variants and    *)
(* every policy, the fetches succeed or fail without throwing.             *)

NextSelect ==
    \/ SourceResolve
    \/ \E ok \in BOOLEAN : SourceFetchResponse(ok)

SpecSelect ==
    /\ InitFrom({1})
    /\ brMode = "all"
    /\ ~mediaPlaylist.endList
    /\ hlsSource \in {[IdleSource EXCEPT !.master = TRUE, !.variants = v,
                                         !.qualitySelection = q] :
                          v \in UNION {[1..n -> VariantStreams] : n \in 0..MaxVariants},
                          q \in {"highest", "auto", "lowest"}}
    /\ muxer = NULL /\ m3u8 = NULL /\ track = NULL
    /\ [][NextSelect]_vars

(* The example player: loads, the loops of the iterators and recoveries.   *)

SpecPlayer ==
    /\ InitFrom({1})
    /\ brMode = "all"
    /\ ~mediaPlaylist.endList
    /\ hlsSource = IdleSource
    /\ muxer = NULL /\ m3u8 = NULL /\ track = NULL
    /\ [][NextPlayer]_vars

(* HlsSource.resolve() under the policies { bandwidth } and { resolution }: *)
(* every list of at most MaxClosest variants with and without RESOLUTION.  *)

SpecClosest ==
    /\ InitFrom({1})
    /\ brMode = "all"
    /\ ~mediaPlaylist.endList
    /\ hlsSource \in
         {[IdleSource EXCEPT !.master = TRUE, !.variants = v,
                             !.qualitySelection = q[1], !.target = q[2]] :
             v \in UNION {[1..n -> [bandwidth : 1..MaxBandwidth,
                                    codecs : {<<>>, <<"avc1", "mp4a">>,
                                              <<"avc1", "ec-3">>},
                                    resolution : {<<>>} \cup
                                        {<<w, w>> : w \in 1..MaxWidth}]] :
                             n \in 0..MaxClosest},
             q \in {<<"bandwidth", <<b>>>> : b \in 1..MaxBandwidth}
                     \cup {<<"resolution", <<w, w>>>> : w \in 1..MaxWidth}}
    /\ muxer = NULL /\ m3u8 = NULL /\ track = NULL
    /\ [][NextSelect]_vars

(* HlsSource.resolve() with fetches that throw, with and without the retry *)
(* hook; the hook gives up after MaxAttempts retries at the latest.        *)

NextRetry ==
    \/ SourceResolve
    \/ \E ok \in BOOLEAN : SourceFetchResponse(ok)
    \/ \E delay \in {NULL, 0} :
          /\ delay = NULL \/ (hlsSource.getRetryDelay /\ hlsSource.attempts < MaxAttempts)
          /\ SourceFetchThrows(delay)
    \/ SourceDelayDone

SpecRetry ==
    /\ InitFrom({1})
    /\ brMode = "all"
    /\ ~mediaPlaylist.endList
    /\ hlsSource \in {[IdleSource EXCEPT !.getRetryDelay = h, !.master = (v # <<>>),
                                         !.variants = v] :
                          h \in BOOLEAN,
                          v \in UNION {[1..n -> VariantStreams] : n \in 0..1}}
    /\ muxer = NULL /\ m3u8 = NULL /\ track = NULL
    /\ [][NextRetry]_vars

(* The facade with the refreshes of the source of its variant input.       *)

NextInput ==
    \/ \E c \in 1..NCallers, op \in Ops, v \in 0..NVariants :
          (op = "selectVariant" \/ v = 0) /\ HlsCall(c, op, v)
    \/ \E kind \in {"fail", "master", "media"}, pl \in LoadedPlaylists :
          HlsManifestDone(kind, pl)
    \/ \E c \in 1..NCallers : HlsAfterInit(c)
    \/ \E c \in 1..NCallers, ok \in BOOLEAN, pl \in LoadedPlaylists :
          HlsMediaDone(c, ok, pl)
    \/ \E ok \in BOOLEAN : HlsSourceInitDone(ok)
    \/ \E c \in 1..NCallers : HlsLiveReturn(c)
    \/ HlsDispose
    \/ (TimerFire /\ RefreshAllowed(InputChanges))
    \/ \E outcome \in {"fail", "master", "parse"} : RefreshFail(outcome)
    \/ \E p \in Snapshots : RefreshMedia(p.mediaSequence, p.len, p.endList)

\* no source exists before the facade builds one
InitInput ==
    /\ InitFrom({1})
    /\ brMode = "all"
    /\ ~mediaPlaylist.endList
    /\ hlsSource = IdleSource
    /\ muxer = NULL /\ m3u8 = NULL /\ track = NULL

SpecInput == InitInput /\ [][NextInput]_vars

(* The facade alone: the manifest, the variants and the variant input; no  *)
(* operation reaches into the source.                                      *)

\* one live and one complete playlist
ShortPlaylists == {Playlist(0, 1, e) : e \in BOOLEAN}

NextManifest ==
    \/ \E c \in 1..NCallers, op \in Ops \ {"computeDuration"}, v \in 0..NVariants :
          (op = "selectVariant" \/ v = 0) /\ HlsCall(c, op, v)
    \/ \E kind \in {"fail", "master", "media"}, pl \in ShortPlaylists :
          HlsManifestDone(kind, pl)
    \/ \E c \in 1..NCallers : HlsAfterInit(c)
    \/ \E c \in 1..NCallers, ok \in BOOLEAN, pl \in ShortPlaylists :
          HlsMediaDone(c, ok, pl)
    \/ HlsDispose

SpecManifest == InitInput /\ [][NextManifest]_vars

(* One _read call against refreshes and prefetches.  Timer callbacks and   *)
(* fetch completions are tasks of the event loop:                          *)
(*  - none runs between the resolution of `await this.initialize()` and    *)
(*    the code of _read after it, which is a microtask (pc "eval");        *)
(*  - at the live edge they run before the first tick of the wait: a       *)
(*    change that arrives between two later ticks is seen by the next tick *)
(*    exactly as one that arrived before the first;                        *)
(*  - once the read has returned the source moves as it does with no read  *)
(*    in progress.                                                         *)

Settled == rd.pc \notin {"eval", "done"} /\ rd.waited = 0

NextRead ==
    \/ (Settled /\ EnsureInitialized)
    \/ (Settled /\ \E ok \in BOOLEAN : EnsureInitDone(ok))
    \/ (Settled /\ TimerFire /\ RefreshAllowed(ReadChanges))
    \/ (Settled /\ \E outcome \in {"fail", "master", "parse"} : RefreshFail(outcome))
    \/ (Settled /\ \E p \in Snapshots : RefreshMedia(p.mediaSequence, p.len, p.endList))
    \/ (Settled /\ \E r \in DOMAIN fetches, ok \in BOOLEAN : FetchComplete(r, ok))
    \/ \E x \in ReadRanges : ReadCall(x[1], x[2])
    \/ \E ok \in BOOLEAN : ReadInitDone(ok)
    \/ ReadEval
    \/ \E ok \in BOOLEAN : ReadFetchDone(ok)
    \/ \E ok \in BOOLEAN : ReadTailDone(ok)
    \/ PollCheck

SpecRead == Init /\ [][NextRead]_vars

(* The same with reads long enough to span the init segment, a gap and a   *)
(* segment, or two segments.                                               *)

SpanRanges == {<<a, a + n>> : a \in 0..MaxOff, n \in 1..SpanLen}

NextSpan ==
    \/ (Settled /\ EnsureInitialized)
    \/ (Settled /\ \E ok \in BOOLEAN : EnsureInitDone(ok))
    \/ (Settled /\ TimerFire /\ RefreshAllowed(ReadChanges))
    \/ (Settled /\ \E outcome \in {"fail", "master", "parse"} : RefreshFail(outcome))
    \/ (Settled /\ \E p \in Snapshots : RefreshMedia(p.mediaSequence, p.len, p.endList))
    \/ (Settled /\ \E r \in DOMAIN fetches, ok \in BOOLEAN : FetchComplete(r, ok))
    \/ \E x \in SpanRanges : ReadCall(x[1], x[2])
    \/ \E ok \in BOOLEAN : ReadInitDone(ok)
    \/ ReadEval
    \/ \E ok \in BOOLEAN : ReadFetchDone(ok)
    \/ \E ok \in BOOLEAN : ReadTailDone(ok)
    \/ PollCheck

SpecSpan == Init /\ [][NextSpan]_vars

(* A playlist longer than the cache, its segments requested in playlist    *)
(* order through readSegmentData, one at a time.                           *)

NextUncached(seq) ==
    /\ seq \notin segmentDataCache
    /\ \A s \in DOMAIN segmentInfoMap : s < seq => s \in segmentDataCache

NextCache ==
    \/ EnsureInitialized
    \/ \E ok \in BOOLEAN : EnsureInitDone(ok)
    \/ \E seq \in DOMAIN segmentInfoMap : (NextUncached(seq) /\ ReadSegmentData(seq))
    \/ \E r \in DOMAIN fetches, ok \in BOOLEAN : FetchComplete(r, ok)

SpecCache == InitCache /\ [][NextCache]_vars

(* The same on a live stream.  Two refreshes are followed: one before the  *)
(* first request, which lists one more segment and starts prefetches, and  *)
(* one when the cache is one entry short of full, which may find the       *)
(* window moved past the first segment: that segment expires, perhaps      *)
(* while a fetch of it is in flight.  Only the fetch of the first segment  *)
(* is slow: a segment is requested, once, when no refresh and no fetch of  *)
(* another segment is in flight and the segments before it are cached or   *)
(* in flight.                                                              *)

NextEvict ==
    \/ EnsureInitialized
    \/ \E ok \in BOOLEAN : EnsureInitDone(ok)
    \/ /\ mediaPlaylist.mediaSequence = 0
       /\ InFlight("direct") = 0
       /\ \/ segmentDataCache = {} /\ segmentChangeCounter = CacheWin
          \/ Cardinality(segmentDataCache) = MAX_CACHED_SEGMENTS - 1
       /\ TimerFire
    \/ \E p \in {Playlist(0, CacheWin + 1, FALSE), Playlist(bufferSegments + 1, 1, FALSE)} :
          RefreshMedia(p.mediaSequence, p.len, p.endList)
    \/ \E seq \in DOMAIN segmentInfoMap :
          /\ ~isRefreshing
          /\ \A r \in DOMAIN fetches : r.seq = 0 /\ seq # 0
          /\ seq \notin segmentDataCache \cup fetchedOnce
          /\ \A s \in DOMAIN segmentInfoMap :
                s < seq => s \in segmentDataCache \/ (\E r \in DOMAIN fetches : r.seq = s)
          /\ ReadSegmentData(seq)
    \/ \E r \in DOMAIN fetches : FetchComplete(r, TRUE)

SpecEvict ==
    /\ InitFrom({CacheWin})
    /\ ~mediaPlaylist.endList
    /\ hlsSource = IdleSource
    /\ muxer = NULL /\ m3u8 = NULL /\ track = NULL
    /\ [][NextEvict]_vars

(* The long playlist as a complete (VOD) stream without byte ranges: once  *)
(* every segment was fetched, and while the requests go on in playlist     *)
(* order, one read asks for the last byte of the stream or for the byte    *)
(* after it.                                                               *)

NextTail ==
    \/ EnsureInitialized
    \/ \E ok \in BOOLEAN : EnsureInitDone(ok)
    \/ \E seq \in DOMAIN segmentInfoMap :
          (NextUncached(seq) /\ rd.pc \in {"idle", "done"} /\ ReadSegmentData(seq))
    \/ \E r \in DOMAIN fetches : FetchComplete(r, TRUE)
    \/ \E d \in {0, 1} :
          /\ fetchedOnce = 0..(CacheWin - 1)
          /\ fetches = EmptyBag
          /\ ReadCall(segmentInfoMap[CacheWin - 1].end - 1 + d,
                      segmentInfoMap[CacheWin - 1].end + d)
    \/ ReadEval
    \/ ReadFetchDone(TRUE)

SpecTail ==
    /\ InitFrom({CacheWin})
    /\ mediaPlaylist.endList
    /\ brMode = "none"
    /\ hlsSource = IdleSource
    /\ muxer = NULL /\ m3u8 = NULL /\ track = NULL
    /\ [][NextTail]_vars

----------------------------------------------------------------------------
(* HlsMuxer (src/src/hls_old/hls-muxer.ts): the fMP4 fragments of the       *)
(* internal muxer become the segments of a media playlist.  A segment file  *)
(* name is the pattern with the segment number in it; it stands here for    *)
(* that number.  muxer.written lists the playlists the last step wrote.     *)

MaxSegments == 4        \* segments the muxer produces
MaxSegmentCount == 2    \* largest options.maxSegmentCount
MaxFragment == 2        \* longest fragment, in seconds
segmentDuration == 2    \* options.segmentDuration

buildPlaylist(m, isFinalized) ==
    [targetDuration |-> LET d == {segmentDuration} \cup
                                   {m.segments[i].duration : i \in DOMAIN m.segments}
                        IN CHOOSE x \in d : \A y \in d : y <= x,
     mediaSequence |-> IF m.playlistType # "unset" THEN 0
                       ELSE Max(0, m.currentSegmentNumber - Len(m.segments)),
     playlistType |-> m.playlistType,
     endList |-> isFinalized /\ m.playlistType = "VOD",
     segments |-> [i \in DOMAIN m.segments |->
                     [duration |-> m.segments[i].duration,
                      uri |-> m.segments[i].number,
                      map |-> i = 1]]]

\* the muxer after finalizeCurrentSegment; duration is that of the segment
finalizeCurrentSegment(m, duration) ==
    IF ~m.hasData THEN m
    ELSE LET pushed == Append(m.segments, [number |-> m.currentSegmentNumber,
                                           timestamp |-> m.currentSegmentTimestamp,
                                           duration |-> duration])
             kept == IF m.playlistType = "unset" /\ Len(pushed) > m.maxSegmentCount
                     THEN Tail(pushed) ELSE pushed
             m1 == [m EXCEPT !.segments = kept]
         IN [m1 EXCEPT !.written = Append(@, buildPlaylist(m1, FALSE)),
                       !.currentSegmentNumber = @ + 1,
                       !.hasData = FALSE]

\* handleMoof followed by handleMdat: a fragment that starts d seconds after
\* the one before it
handleMoof(d) ==
    /\ ~muxer.finalized
    /\ muxer.currentSegmentNumber < MaxSegments
    /\ muxer.hasData \/ d = 1
    /\ LET timestamp == IF muxer.hasData THEN muxer.currentSegmentTimestamp + d ELSE 0
           m == finalizeCurrentSegment([muxer EXCEPT !.written = <<>>], d)
       IN muxer' = [m EXCEPT !.currentSegmentTimestamp = timestamp, !.hasData = TRUE]
    /\ notified' = <<>>
    /\ UNCHANGED <<srcVars, hls, hlsSource, m3u8, track, scheduled, demuxer, player>>

finalize ==
    /\ ~muxer.finalized
    /\ LET m == finalizeCurrentSegment([muxer EXCEPT !.written = <<>>], segmentDuration)
       IN muxer' = [m EXCEPT !.written = Append(@, buildPlaylist(m, TRUE)),
                             !.finalized = TRUE]
    /\ notified' = <<>>
    /\ UNCHANGED <<srcVars, hls, hlsSource, m3u8, track, scheduled, demuxer, player>>

NextMuxer ==
    \/ \E d \in 1..MaxFragment : handleMoof(d)
    \/ finalize

SpecMuxer ==
    /\ InitFrom({1})
    /\ brMode = "all"
    /\ ~mediaPlaylist.endList
    /\ hlsSource = IdleSource
    /\ m3u8 = NULL /\ track = NULL
    /\ muxer \in {[playlistType |-> t, maxSegmentCount |-> n, segments |-> <<>>,
                    currentSegmentNumber |-> 0, currentSegmentTimestamp |-> 0,
                    hasData |-> FALSE, written |-> <<>>, finalized |-> FALSE] :
                      t \in {"unset", "VOD", "EVENT"}, n \in 1..MaxSegmentCount}
    /\ [][NextMuxer]_vars

----------------------------------------------------------------------------
(* writeMediaPlaylist and parseMediaPlaylist.  The text is the list of its *)
(* lines, a line is its tag with the value written after it; a number and  *)
(* its decimal digits are the same thing.  A duration counts ten           *)
(* thousandths of a second, so that the three decimals of EXTINF round it; *)
(* an absent field is NULL, "" or a record of them.                        *)

MaxPlaylistSegments == 2

NoKey == [method |-> "", uri |-> ""]
NoRange == [length |-> NULL, offset |-> NULL]

\* the playlists written: every field the writer and the parser treat by cases
MediaPlaylists ==
    LET MediaSegments ==
          [duration : {10000, 10005},
           uri : {"seg.m4s"},
           key : {NoKey, [method |-> "AES-128", uri |-> "key.bin"],
                  [method |-> "NONE", uri |-> ""]},
           map : {"", "init.mp4"},
           byteRange : {NoRange, [length |-> 5, offset |-> 0],
                        [length |-> 5, offset |-> NULL]},
           discontinuity : BOOLEAN,
           bitrate : {NULL, 1000, 1500}]
    IN [version : {1, 6}, targetDuration : {2}, mediaSequence : {0, 1},
        playlistType : {""}, endList : BOOLEAN,
        segments : UNION {[1..n -> MediaSegments] : n \in 0..MaxPlaylistSegments}]

Line(tag, value) == [tag |-> tag, value |-> value]

\* toFixed(3) truncates instead of rounding
formatDurationTruncated(duration) == duration \div 10

\* toFixed(3): the duration in thousandths, rounded
formatDuration(duration) == (duration + 5) \div 10

\* the lines of the segments, lines 170-221
RECURSIVE writeSegments(_, _, _)
writeSegments(segments, currentKey, currentMap) ==
    IF segments = <<>> THEN <<>>
    ELSE LET segment == Head(segments)
             keyChanged == segment.key # NoKey /\ segment.key # currentKey
             keyCleared == segment.key = NoKey /\ currentKey # NoKey
             mapChanged == segment.map # "" /\ segment.map # currentMap
         IN (IF keyChanged THEN <<Line("EXT-X-KEY", segment.key)>>
             ELSE IF keyCleared
                  THEN <<Line("EXT-X-KEY", [method |-> "NONE", uri |-> ""])>>
                  ELSE <<>>)
            \o (IF mapChanged THEN <<Line("EXT-X-MAP", segment.map)>> ELSE <<>>)
            \o (IF segment.discontinuity THEN <<Line("EXT-X-DISCONTINUITY", NULL)>>
                ELSE <<>>)
            \o (IF segment.bitrate # NULL
                THEN <<Line("EXT-X-BITRATE", (segment.bitrate + 500) \div 1000)>>
                ELSE <<>>)
            \o (IF segment.byteRange # NoRange
                THEN <<Line("EXT-X-BYTERANGE", segment.byteRange)>> ELSE <<>>)
            \o <<Line("EXTINF", formatDuration(segment.duration)),
                 Line("", segment.uri)>>
            \o writeSegments(Tail(segments),
                             IF keyChanged THEN segment.key
                             ELSE IF keyCleared THEN NoKey ELSE currentKey,
                             IF mapChanged THEN segment.map ELSE currentMap)

writeMediaPlaylist(playlist) ==
    <<Line("EXTM3U", NULL)>>
    \o (IF playlist.version > 1 THEN <<Line("EXT-X-VERSION", playlist.version)>>
        ELSE <<>>)
    \o <<Line("EXT-X-TARGETDURATION", playlist.targetDuration)>>
    \o (IF playlist.mediaSequence # 0
        THEN <<Line("EXT-X-MEDIA-SEQUENCE", playlist.mediaSequence)>> ELSE <<>>)
    \o (IF playlist.playlistType # ""
        THEN <<Line("EXT-X-PLAYLIST-TYPE", playlist.playlistType)>> ELSE <<>>)
    \o writeSegments(playlist.segments, NoKey, "")
    \o (IF playlist.endList THEN <<Line("EXT-X-ENDLIST", NULL)>> ELSE <<>>)

\* the loop over the lines, lines 999-1077: st is the playlist built so far
\* with pendingSegment, currentKey, currentMap and lastByteRangeEnd
RECURSIVE parseLines(_, _)
parseLines(lines, st) ==
    IF lines = <<>> THEN st.playlist
    ELSE LET line == Head(lines)
             tag == line.tag
             segment == [st.pendingSegment EXCEPT
                            !.duration = IF @ = NULL THEN 0 ELSE @,
                            !.uri = line.value,
                            !.key = IF st.currentKey # NoKey
                                       /\ st.currentKey.method # "NONE"
                                    THEN st.currentKey ELSE NoKey,
                            !.map = st.currentMap]
             next ==
               CASE tag = "EXT-X-VERSION" -> [st EXCEPT !.playlist.version = line.value]
                 [] tag = "EXT-X-TARGETDURATION" ->
                       [st EXCEPT !.playlist.targetDuration = line.value]
                 [] tag = "EXT-X-MEDIA-SEQUENCE" ->
                       [st EXCEPT !.playlist.mediaSequence = line.value]
                 [] tag = "EXT-X-PLAYLIST-TYPE" ->
                       IF line.value \in {"VOD", "EVENT"}
                       THEN [st EXCEPT !.playlist.playlistType = line.value] ELSE st
                 [] tag = "EXT-X-ENDLIST" -> [st EXCEPT !.playlist.endList = TRUE]
                 [] tag = "EXTINF" -> [st EXCEPT !.pendingSegment.duration = line.value * 10]
                 [] tag = "EXT-X-BYTERANGE" ->
                       [st EXCEPT !.pendingSegment.byteRange =
                           [length |-> line.value.length,
                            offset |-> IF line.value.offset # NULL THEN line.value.offset
                                       ELSE st.lastByteRangeEnd]]
                 [] tag = "EXT-X-DISCONTINUITY" ->
                       [st EXCEPT !.pendingSegment.discontinuity = TRUE]
                 [] tag = "EXT-X-KEY" -> [st EXCEPT !.currentKey = line.value]
                 [] tag = "EXT-X-MAP" -> [st EXCEPT !.currentMap = line.value]
                 [] tag = "EXT-X-BITRATE" ->
                       [st EXCEPT !.pendingSegment.bitrate = line.value * 1000]
                 [] tag = "" ->
                       [st EXCEPT !.playlist.segments = Append(@, segment),
                                  !.lastByteRangeEnd =
                                      IF segment.byteRange.offset # NULL
                                      THEN segment.byteRange.offset + segment.byteRange.length
                                      ELSE @,
                                  !.pendingSegment =
                                      [duration |-> NULL, uri |-> "", key |-> NoKey,
                                       map |-> "", byteRange |-> NoRange,
                                       discontinuity |-> FALSE, bitrate |-> NULL]]
                 [] OTHER -> st
         IN parseLines(Tail(lines), next)

parseMediaPlaylist(content) ==
    parseLines(content,
               [playlist |-> [version |-> 1, targetDuration |-> 0, mediaSequence |-> 0,
                              playlistType |-> "", endList |-> FALSE, segments |-> <<>>],
                pendingSegment |-> [duration |-> NULL, uri |-> "", key |-> NoKey,
                                    map |-> "", byteRange |-> NoRange,
                                    discontinuity |-> FALSE, bitrate |-> NULL],
                currentKey |-> NoKey, currentMap |-> "", lastByteRangeEnd |-> 0])

WritePlaylist ==
    /\ m3u8.written = <<>>
    /\ m3u8' = [m3u8 EXCEPT !.written = writeMediaPlaylist(m3u8.original)]
    /\ notified' = <<>>
    /\ UNCHANGED <<srcVars, hls, hlsSource, muxer, track, scheduled, demuxer, player>>

ParsePlaylist ==
    /\ m3u8.written # <<>>
    /\ m3u8.parsed = <<>>
    /\ m3u8' = [m3u8 EXCEPT !.parsed = <<parseMediaPlaylist(m3u8.written)>>]
    /\ notified' = <<>>
    /\ UNCHANGED <<srcVars, hls, hlsSource, muxer, track, scheduled, demuxer, player>>

NextM3u8 == WritePlaylist \/ ParsePlaylist

SpecM3u8 ==
    /\ InitFrom({1})
    /\ brMode = "all"
    /\ ~mediaPlaylist.endList
    /\ hlsSource = IdleSource
    /\ muxer = NULL /\ track = NULL
    /\ m3u8 \in [original : MediaPlaylists, written : {<<>>}, parsed : {<<>>}]
    /\ [][NextM3u8]_vars

----------------------------------------------------------------------------
(* HlsTrackBacking (src/src/hls_old/hls-track-backing.ts): the packets of   *)
(* one track, segment by segment.  track.segments[i + 1] lists the packets  *)
(* getPacketsFromSegment(i) yields, their timestamps already shifted to the *)
(* playlist start of the segment (the first one yielded sits on it); the    *)
(* playlist gives every segment SegLen time units.  track.delivered is the  *)
(* history of the packets returned to the one consumer, the last of them is *)
(* the packet it passes to getNextPacket.                                   *)

maxCachedSegments == 5
MaxTrackSegments == 2   \* segments of the track
MaxPackets == 3         \* packets of one segment
SegLen == 2             \* playlist duration of a segment

\* binarySearchSegment over the segment infos of the video playlist; the
\* result is an index from 0, or NULL
RECURSIVE binarySearchSegment(_, _, _, _)
binarySearchSegment(count, timestamp, left, right) ==
    IF left > right
    THEN IF count > 0 /\ timestamp >= (count - 1) * SegLen THEN count - 1 ELSE NULL
    ELSE LET mid == (left + right) \div 2
         IN IF timestamp < mid * SegLen
            THEN binarySearchSegment(count, timestamp, left, mid - 1)
            ELSE IF timestamp >= mid * SegLen + SegLen
                 THEN binarySearchSegment(count, timestamp, mid + 1, right)
                 ELSE mid

\* cache.packets of a segment: what the segment yields, sorted by sequence
\* number (the sequence numbers of one segment are distinct)
packets(tr, segmentIndex) ==
    LET yielded == tr.segments[segmentIndex + 1]
    IN [k \in DOMAIN yielded |->
          CHOOSE p \in {yielded[j] : j \in DOMAIN yielded} :
              Cardinality({j \in DOMAIN yielded :
                              yielded[j].sequenceNumber < p.sequenceNumber}) = k - 1]

\* the backing after loadSegmentPackets (prefetch) or loadSegmentPacketsInternal
\* (no prefetch) of one segment
loadSegmentPackets(tr, segmentIndex, prefetch) ==
    LET has(c, i) == \E k \in DOMAIN c : c[k] = i
        set == IF has(tr.segmentCache, segmentIndex) THEN tr.segmentCache
               ELSE Append(tr.segmentCache, segmentIndex)
        keepRange == maxCachedSegments \div 2
        outside(i) == i < Max(0, segmentIndex - keepRange) \/ i > segmentIndex + keepRange
        first == IF \E k \in DOMAIN set : outside(set[k])
                 THEN CHOOSE k \in DOMAIN set :
                         outside(set[k]) /\ \A j \in 1..(k - 1) : ~outside(set[j])
                 ELSE 0
        evicted == IF has(tr.segmentCache, segmentIndex)
                      \/ Len(set) <= maxCachedSegments \/ first = 0
                   THEN set
                   ELSE SubSeq(set, 1, first - 1) \o SubSeq(set, first + 1, Len(set))
        nextIndex == segmentIndex + 1
    IN [tr EXCEPT !.segmentCache = evicted,
                  !.prefetchingSegments =
                      IF /\ prefetch
                         /\ nextIndex < Len(tr.segments)
                         /\ ~has(evicted, nextIndex)
                      THEN @ \cup {nextIndex} ELSE @]

getFirstPacket ==
    /\ track.pc = "start"
    /\ LET cache == packets(track, 0)
           tr == loadSegmentPackets(track, 0, TRUE)
       IN track' = IF cache = <<>> THEN [tr EXCEPT !.pc = "end"]
                   ELSE [tr EXCEPT !.pc = "iterating", !.delivered = <<cache[1]>>]
    /\ notified' = <<>>
    /\ UNCHANGED <<srcVars, hls, hlsSource, muxer, m3u8, scheduled, demuxer, player>>

\* getNextPacket(packet) with the packet returned last
getNextPacket ==
    /\ track.pc = "iterating"
    /\ Len(track.delivered) <= Len(track.segments) * MaxPackets
    /\ LET packet == track.delivered[Len(track.delivered)]
           count == Len(track.segments)
           found == binarySearchSegment(count, packet.timestamp, 0, count - 1)
           segmentIndex == IF found = NULL THEN 0 ELSE found
           findIndex(cache) ==
               IF \E k \in DOMAIN cache : cache[k].timestamp = packet.timestamp
               THEN CHOOSE k \in DOMAIN cache :
                       /\ cache[k].timestamp = packet.timestamp
                       /\ \A j \in 1..(k - 1) : cache[j].timestamp # packet.timestamp
               ELSE 0
           firstOf(i) == IF packets(track, i) = <<>> THEN <<>> ELSE <<packets(track, i)[1]>>
           \* the segment and the position in it where the packet was found, or
           \* the result when it was found in neither segment
           here == findIndex(packets(track, segmentIndex))
           there == IF segmentIndex + 1 < count
                    THEN findIndex(packets(track, segmentIndex + 1)) ELSE 0
           at == IF here # 0 THEN segmentIndex ELSE segmentIndex + 1
           currentIndex == IF here # 0 THEN here ELSE there
           loadedFirst == IF here # 0 \/ segmentIndex + 1 >= count THEN <<segmentIndex>>
                          ELSE <<segmentIndex, segmentIndex + 1>>
           result ==
               IF here = 0 /\ segmentIndex + 1 >= count
               THEN [ret |-> <<>>, loads |-> loadedFirst]
               ELSE IF here = 0 /\ there = 0
               THEN [ret |-> firstOf(segmentIndex + 1), loads |-> loadedFirst]
               ELSE IF currentIndex < Len(packets(track, at))
               THEN [ret |-> <<packets(track, at)[currentIndex + 1]>>, loads |-> loadedFirst]
               ELSE IF at + 1 >= count
               THEN [ret |-> <<>>, loads |-> loadedFirst]
               ELSE [ret |-> firstOf(at + 1), loads |-> Append(loadedFirst, at + 1)]
           after(k) == IF k = 0 THEN track
                       ELSE loadSegmentPackets(
                               IF k = 1 THEN track
                               ELSE IF k = 2
                                    THEN loadSegmentPackets(track, result.loads[1], TRUE)
                                    ELSE loadSegmentPackets(
                                            loadSegmentPackets(track, result.loads[1], TRUE),
                                            result.loads[2], TRUE),
                               result.loads[k], TRUE)
           tr == after(Len(result.loads))
       IN track' = IF result.ret = <<>> THEN [tr EXCEPT !.pc = "end"]
                   ELSE [tr EXCEPT !.delivered = Append(@, result.ret[1])]
    /\ notified' = <<>>
    /\ UNCHANGED <<srcVars, hls, hlsSource, muxer, m3u8, scheduled, demuxer, player>>

\* loadSegmentPacketsInternal of a prefetch completes
PrefetchDone(nextIndex) ==
    /\ nextIndex \in track.prefetchingSegments
    /\ track' = [loadSegmentPackets(track, nextIndex, FALSE) EXCEPT
                    !.prefetchingSegments = @ \ {nextIndex}]
    /\ notified' = <<>>
    /\ UNCHANGED <<srcVars, hls, hlsSource, muxer, m3u8, scheduled, demuxer, player>>

NextTrack ==
    \/ getFirstPacket
    \/ getNextPacket
    \/ \E i \in 1..MaxTrackSegments : PrefetchDone(i)

\* every track of MaxTrackSegments segments: in each segment up to MaxPackets
\* packets, yielded in any order, the timestamps of one segment distinct and
\* from one unit before its playlist start to its playlist end
SpecTrack ==
    /\ InitFrom({1})
    /\ brMode = "all"
    /\ ~mediaPlaylist.endList
    /\ hlsSource = IdleSource
    /\ muxer = NULL /\ m3u8 = NULL
    /\ track \in
         LET Yields(i) ==
               {y \in UNION {[1..n -> [segmentIndex : {i}, sequenceNumber : 1..MaxPackets,
                                       timestamp : (i * SegLen - 1)..(i * SegLen + SegLen)]] :
                             n \in 1..MaxPackets} :
                  /\ y[1].timestamp = i * SegLen
                  /\ {y[k].sequenceNumber : k \in DOMAIN y} = 1..Len(y)
                  /\ \A j, k \in DOMAIN y :
                        j # k => /\ y[j].sequenceNumber # y[k].sequenceNumber
                                 /\ y[j].timestamp # y[k].timestamp}
         IN {[segments |-> segs, segmentCache |-> <<>>, prefetchingSegments |-> {},
              delivered |-> <<>>, pc |-> "start"] :
                segs \in {f \in [1..MaxTrackSegments -> UNION {Yields(i) : i \in 0..(MaxTrackSegments - 1)}] :
                             \A i \in 1..MaxTrackSegments : f[i] \in Yields(i - 1)}}
    /\ [][NextTrack]_vars

----------------------------------------------------------------------------
(* Properties *)

Tracked == Range(knownSequences)

\* the media sequences tracked before and after a step
StillTracked == Range(knownSequences) \cap Range(knownSequences')

\* the end offset of s is known: explicit byte range, or fetched at least once
EndKnown(s) == HasByteRange(s) \/ s \in fetchedOnce

\* the media sequences with a segment fetch in flight
Completing ==
    {r.seq : r \in DOMAIN fetches}
        \cup (IF rd.pc \in {"fetch", "tailfetch"} THEN {rd.seq} ELSE {})

\* the step completes a fetch of segment q with its data
FetchCompletes(q) ==
    \/ \E r \in DOMAIN fetches : r.seq = q /\ FetchComplete(r, TRUE)
    \/ rd.seq = q /\ (ReadFetchDone(TRUE) \/ ReadTailDone(TRUE))

\* the read in progress asks for the gap area of a live playlist
InGap ==
    /\ ~mediaPlaylist.endList
    /\ Len(knownSequences) > 0
    /\ initSegmentData # NULL
    /\ rd.start >= initSegmentData
    /\ rd.start < segmentInfoMap[knownSequences[1]].start

\* the read in progress asks for bytes at or beyond the known end of the last
\* tracked segment of a live source that is not disposed
AtLiveEdge ==
    /\ ~mediaPlaylist.endList
    /\ ~disposed
    /\ initSegmentData # NULL
    /\ Len(knownSequences) > 0
    /\ EndKnown(knownSequences[Len(knownSequences)])
    /\ rd.start >= segmentInfoMap[knownSequences[Len(knownSequences)]].end

\* C1: on a live source that is not disposed, every refresh attempt that ends
\* without having seen endList leaves the refresh timer armed, whatever the
\* attempt ended with (failed fetch, non-media playlist, parse error, snapshot).
C1_RefreshRearmsTimer ==
    [][(isRefreshing /\ ~isRefreshing' /\ ~disposed' /\ ~mediaPlaylist'.endList)
          => refreshTimer']_vars

\* C2 as stated: the start offset recorded for a tracked media sequence never
\* changes while the sequence stays tracked.
C2_StartNeverChanges ==
    [][\A s \in StillTracked :
          segmentInfoMap'[s].start = segmentInfoMap[s].start]_vars

\* C2, amended: the start offset of a tracked media sequence S never changes
\* when S carries a byte range; when S carries none it changes only in a step
\* that completes the fetch of another segment without byte range, one that
\* precedes S in knownSequences or is no longer tracked.
C2_StartChangesOnlyByFetch ==
    [][\A s \in StillTracked :
          segmentInfoMap'[s].start # segmentInfoMap[s].start
          => /\ ~HasByteRange(s)
             /\ \E q \in Completing \ {s} :
                   /\ ~HasByteRange(q)
                   /\ q \in Tracked
                        => IndexOf(knownSequences, q) < IndexOf(knownSequences, s)
                   /\ FetchCompletes(q)]_vars

\* a read fetched segment 0 of a playlist without byte ranges and the start of
\* segment 1 moved from the end of the init segment to the end of segment 0
C2_StartMoved ==
    /\ brMode = "none"
    /\ knownSequences = <<0, 1>>
    /\ rd.pc = "done" /\ rd.result = "data" /\ rd.nfetch = 1
    /\ 0 \in segmentDataCache
    /\ 1 \notin segmentDataCache
    /\ segmentInfoMap[0].start = InitLen
    /\ segmentInfoMap[1].start = InitLen + SegSize(0)

\* C3: knownSequences is strictly increasing and contiguous: each element is
\* its predecessor plus one.
C3_KnownContiguous ==
    \A i \in 2..Len(knownSequences) : knownSequences[i] = knownSequences[i-1] + 1

\* C4: the segment data cache holds at most MAX_CACHED_SEGMENTS buffers.
C4_CacheBounded == Cardinality(segmentDataCache) <= MAX_CACHED_SEGMENTS

\* C5: once the source is disposed no refresh timer is pending.
C5_NoTimerAfterDispose == disposed => ~refreshTimer

\* C6: once the source is disposed the init segment buffer, the segment data
\* cache, the segment metadata map and knownSequences are empty.
C6_EmptyAfterDispose ==
    disposed => /\ initSegmentData = NULL
                /\ segmentDataCache = {}
                /\ DOMAIN segmentInfoMap = {}
                /\ knownSequences = <<>>

\* C7: a read that evaluates a request for the gap area of a live playlist
\* (start at or above the init segment length, below the start of the first
\* tracked segment) throws the behind-window LiveEdgeError; the step returns no
\* data and no null, starts no segment fetch and caches nothing.
C7_GapReadThrows ==
    [][(rd.pc = "eval" /\ rd'.pc # "eval" /\ InGap)
          => /\ rd'.pc = "done"
             /\ rd'.result = "behind_window"
             /\ rd'.written = 0
             /\ rd'.nfetch = rd.nfetch
             /\ fetches' = fetches
             /\ segmentDataCache' = segmentDataCache]_vars

\* a read of the gap area has thrown behind-window without any fetch
C7_GapReadThrown ==
    /\ InGap
    /\ rd.pc = "done"
    /\ rd.result = "behind_window"
    /\ rd.nfetch = 0

\* C8: a read at or beyond the known end of the last tracked segment of a live
\* source that is not disposed never ends with null.  A wait starts with no
\* time waited and the current change counter; each tick comes checkInterval
\* later; the tick that sees the counter advanced retries the read; the tick
\* that brings the time waited to maxWait with the counter unchanged throws the
\* timeout LiveEdgeError, and no other step does.
C8_LiveEdgeRead ==
    [][/\ (rd.pc # "done" /\ rd'.pc = "done" /\ rd'.result = "null") => ~AtLiveEdge'
       /\ (rd.pc # "wait" /\ rd'.pc = "wait")
            => rd'.waited = 0 /\ rd'.counter = segmentChangeCounter'
       /\ (rd.pc # "done" /\ rd'.pc = "done" /\ rd'.result = "timeout")
            => rd.pc = "wait" /\ rd'.waited = maxWait
                 /\ segmentChangeCounter = rd.counter
       /\ (rd.pc = "wait" /\ rd' # rd)
            => IF disposed \/ segmentChangeCounter > rd.counter
               THEN rd'.pc = "eval" /\ rd'.start = rd.start /\ rd'.end = rd.end
               ELSE /\ rd'.waited = rd.waited + checkInterval
                    /\ IF rd'.waited >= maxWait
                       THEN rd'.pc = "done" /\ rd'.result = "timeout"
                       ELSE rd'.pc = "wait"]_vars

\* a read at the live edge has polled for maxWait and thrown the timeout
C8_TimedOut ==
    /\ AtLiveEdge
    /\ rd.pc = "done"
    /\ rd.result = "timeout"
    /\ rd.waited = maxWait
    /\ rd.counter = segmentChangeCounter

\* C9: segmentChangeCounter never decreases, and a refresh that removes a
\* media sequence from knownSequences strictly increases it.
C9_CounterCountsRemovals ==
    [][/\ segmentChangeCounter' >= segmentChangeCounter
       /\ (isRefreshing /\ ~isRefreshing' /\ Tracked \ Range(knownSequences') # {})
            => segmentChangeCounter' > segmentChangeCounter]_vars

\* C10: once the end offset of a tracked segment is known (byte range, or
\* fetched at least once) it never changes while the segment stays tracked.
C10_EndImmutable ==
    [][\A s \in StillTracked :
          EndKnown(s) => segmentInfoMap'[s].end = segmentInfoMap[s].end]_vars

\* the bytes that the layout of the unified stream places at position p: byte p
\* of the init segment, or byte p - start of a tracked segment whose recorded
\* range [start, end) holds p
LayoutAt(p) ==
    (IF initSegmentData # NULL /\ p < initSegmentData THEN {InitByte(p)} ELSE {})
        \cup {<<s, p - segmentInfoMap[s].start>> :
                 s \in {t \in Tracked : /\ segmentInfoMap[t].start <= p
                                        /\ p < segmentInfoMap[t].end}}

\* C11: a read(a, b) that returns a result returns offset a and n <= b - a
\* bytes, n > 0, and byte k of them is the byte of the unified stream (init
\* segment, then the tracked segments at their recorded offsets) at a + k.
C11_ReadReturnsStream ==
    (rd.pc = "done" /\ rd.result = "data")
        => /\ rd.offset = rd.start
           /\ Len(rd.bytes) = rd.written
           /\ rd.written > 0
           /\ rd.written <= rd.end - rd.start
           /\ \A k \in 1..Len(rd.bytes) : rd.bytes[k] \in LayoutAt(rd.start + k - 1)

\* C12: for every tracked media sequence, getSegmentByteOffset returns a value
\* if and only if the segment carries a byte range or has been fetched at least
\* once, whether or not its data is still cached.
C12_ByteOffsetDefined ==
    \A ms \in Tracked : (getSegmentByteOffset(ms) # NULL) <=> EndKnown(ms)

\* the media sequences a playlist snapshot lists, in playlist order
SnapshotSeqs(p) == [i \in 1..p.len |-> p.mediaSequence + i - 1]

\* those of them that are not tracked yet
NotYetTracked(p) == FilterSeq(SnapshotSeqs(p), Range(SnapshotSeqs(p)) \ Tracked)

\* the invocations of one callback among those made by the last step
Invocations(cb) == SelectSeq(notified, LAMBDA c : c.cb = cb)

\* C13: a refresh whose snapshot lists sequences that are not tracked yet
\* appends exactly those to knownSequences in playlist order (after the tracked
\* ones it keeps), adds the sum of their durations to totalDurationSeconds and,
\* when onSegmentsAdded is set, invokes it exactly once, with one entry per new
\* sequence (its duration and start offset) and the total duration before the
\* ingest as start time.
C13_IngestAppends ==
    [][\A p \in Snapshots :
          (RefreshMedia(p.mediaSequence, p.len, p.endList) /\ NotYetTracked(p) # <<>>)
          => LET new == NotYetTracked(p)
             IN /\ knownSequences'
                     = FilterSeq(knownSequences, Range(knownSequences')) \o new
                /\ totalDurationSeconds' = totalDurationSeconds + SumDurations(new)
                /\ onSegmentsAdded
                     => Invocations("added")'
                          = <<[cb |-> "added",
                               segments |->
                                   [i \in 1..Len(new) |->
                                       [durationSeconds |-> SegDuration(new[i]),
                                        moofOffset |-> segmentInfoMap'[new[i]].start]],
                               startTimeSeconds |-> totalDurationSeconds]>>]_vars

\* tracked <<0, 1>> of 6 s and 4 s, a snapshot listing 1 and 2: one entry for
\* segment 2 starting at 10 s, total 16 s
C13_OneEntryAppended ==
    /\ brMode = "all"
    /\ knownSequences = <<0, 1, 2>>
    /\ totalDurationSeconds = 16
    /\ notified = <<AddedCall(<<[durationSeconds |-> 6, moofOffset |-> 5]>>, 10)>>

\* C14: a refresh that expires tracked segments adds exactly the sum of their
\* durations to removedDurationSeconds, and totalDurationSeconds changes in
\* any step by exactly the sum of the durations of the segments the step newly
\* tracks: an expiry leaves it unchanged.
C14_ExpiryDurations ==
    [][/\ totalDurationSeconds'
            = totalDurationSeconds
                + SumDurations(FilterSeq(knownSequences', Range(knownSequences') \ Tracked))
       /\ \A p \in Snapshots :
             RefreshMedia(p.mediaSequence, p.len, p.endList)
             => removedDurationSeconds'
                  = removedDurationSeconds
                      + SumDurations(FilterSeq(knownSequences,
                                               Tracked \ Range(knownSequences')))]_vars

\* tracked <<0, 1>> (6 s and 4 s) were both expired by a snapshot listing 74:
\* 10 s removed, and the total is the 10 s ingested before plus the 6 s of 74
C14_TwoExpired ==
    /\ knownSequences = <<74>>
    /\ removedDurationSeconds = 10
    /\ totalDurationSeconds = 16

\* C15: once the source is disposed, no step invokes onSegmentsAdded or
\* onSegmentsRemoved, also not the completion of a refresh whose playlist fetch
\* was in flight when the source was disposed.
C15_NoCallbackAfterDispose ==
    [][disposed => notified' = <<>>]_vars

\* C16: the init segment is fetched and the initial playlist ingested at most
\* once: the code of initialize() after the init segment fetch runs only on a
\* source that is not initialized yet, however many calls of _read and
\* ensureInitialized were made before the first initialization completed.
C16_SingleInitialization ==
    [][(EnsureInitDone(TRUE) \/ ReadInitDone(TRUE)) => ~initialized]_vars

\* C17: the manifest URL is fetched exactly once, however many facade
\* operations await the initialization, one after the other or at the same
\* time: never more than one fetch, and one as soon as an operation was called.
C17_OneManifestFetch ==
    /\ hls.manifestFetches <= 1
    /\ (\E c \in 1..NCallers : hls.calls[c].pc # "idle") => hls.manifestFetches = 1
    /\ hls.returned # <<>> => hls.manifestFetches = 1

\* two operations called while the manifest fetch is pending await the same
\* initialization
C17_TwoAwaitOneFetch ==
    /\ hls.initPromise = "pending"
    /\ hls.calls[1].pc = "init" /\ hls.calls[1].op = "getVariants"
    /\ hls.calls[2].pc = "init" /\ hls.calls[2].op = "getTracks"
    /\ hls.manifestFetches = 1

\* C18: once HlsInput.dispose() has returned the facade holds no variant
\* pipeline, and none is created afterwards: neither by a query that was
\* suspended on the media playlist fetch when dispose ran, nor by a query
\* issued after dispose; so no refresh timer outlives dispose.
C18_NoPipelineAfterDispose ==
    hls.disposed => (~hls.selectedInput.built /\ ~refreshTimer)

\* C19: isLive() returns false exactly when the most recent media playlist
\* observed for the selected variant, by the initial load or by a later
\* refresh of its source, has endList set.
C19_IsLiveFollowsRefresh ==
    [][(hls' # hls /\ Len(hls'.returned) = 3 /\ hls'.returned[1] = "isLive"
            /\ hls'.returned[2] = "live")
          => (hls'.returned[3] = ~mediaPlaylist'.endList)]_vars

\* C20: on a live HlsInput whose selected variant is not changed, the values
\* returned by successive computeDuration() calls never decrease, and each is
\* the totalDurationSeconds of the segment source at the time of the call;
\* expiry of old segments never reduces it.
C20_DurationNeverDecreases ==
    [][(hls' # hls /\ Len(hls'.returned) = 3 /\ hls'.returned[1] = "computeDuration"
            /\ hls'.returned[2] = "duration" /\ ~hls.disposed)
          => /\ hls'.returned[3] = totalDurationSeconds'
             /\ hls.lastDuration # NULL => hls'.returned[3] >= hls.lastDuration]_vars

\* C21: at any moment at most 3 segment fetches started by prefetchNewSegments
\* are in flight for one source, also when a refresh ingests new segments
\* while the prefetches of an earlier refresh have not completed.
C21_PrefetchBounded == InFlight("prefetch") <= prefetchLimit

\* C22: when a fetch completes and an eviction is needed, a cached sequence
\* that is no longer in knownSequences is evicted in preference to a tracked
\* one: a tracked least-recently-used entry is skipped and the next is tried,
\* so an untracked entry is evicted and no tracked entry is evicted while an
\* untracked one stays.
C22_EvictsUntrackedFirst ==
    [][((\E r \in DOMAIN fetches : FetchComplete(r, TRUE))
          /\ Cardinality(segmentDataCache) >= MAX_CACHED_SEGMENTS
          /\ segmentDataCache \ Range(knownSequences) # {})
         => /\ \E u \in segmentDataCache \ Range(knownSequences) :
                  u \notin segmentDataCache'
            /\ \A t \in segmentDataCache \cap Range(knownSequences) :
                  t \notin segmentDataCache'
                     => (segmentDataCache \cap segmentDataCache') \subseteq
                           Range(knownSequences)]_vars

\* the virtual range of the tracked segment seq is known, from its byte range
\* or because all preceding segments have been fetched, to lie entirely
\* outside [a, b): the end of a segment without byte range is known once it
\* was fetched itself
KnownOutside(seq, a, b, map, once) ==
    LET preceding == {knownSequences[j] : j \in 1..(IndexOf(knownSequences, seq) - 1)}
    IN /\ seq \in DOMAIN map
       /\ \/ HasByteRange(seq) /\ (map[seq].end <= a \/ map[seq].start >= b)
          \/ /\ ~HasByteRange(seq)
             /\ \A s \in preceding : HasByteRange(s) \/ s \in once
             /\ \/ map[seq].start >= b
                \/ seq \in once /\ map[seq].end <= a

\* C23: read(a, b) never starts the fetch of a media segment whose virtual
\* range is known to lie entirely outside [a, b); a read inside the init
\* segment fetches no media segment.
C23_ReadFetchesOnlyInRange ==
    [][(rd'.pc \in {"fetch", "tailfetch"} /\ rd'.nfetch > rd.nfetch)
          => /\ rd'.end > initSegmentData'
             /\ ~KnownOutside(rd'.seq, rd'.start, rd'.end, segmentInfoMap',
                              fetchedOnce')]_vars

C25_HighestSelectsFirstMaximum ==
    LET v == hlsSource.variants
        chosen == hlsSource.selectedVariant
        plain == {i \in DOMAIN v : /\ "ec-3" \notin Range(v[i].codecs)
                                   /\ "ac-3" \notin Range(v[i].codecs)}
        candidates == IF plain # {} THEN plain ELSE DOMAIN v
    IN (hlsSource.master /\ hlsSource.qualitySelection \in {"highest", "auto"}) =>
          /\ (hlsSource.url = "media" /\ v # <<>>) => chosen # 0
          /\ chosen # 0 =>
                /\ chosen \in candidates
                /\ \A j \in candidates :
                      /\ v[j].bandwidth <= v[chosen].bandwidth
                      /\ v[j].bandwidth = v[chosen].bandwidth => chosen <= j

\* a Dolby variant of the highest bandwidth comes first, two other variants
\* share the next bandwidth, and the second variant of the manifest is selected
C25_TieBehindDolby ==
    /\ hlsSource.pc = "resolved"
    /\ hlsSource.qualitySelection = "highest"
    /\ Len(hlsSource.variants) = 3
    /\ "ec-3" \in Range(hlsSource.variants[1].codecs)
    /\ hlsSource.variants[1].bandwidth > hlsSource.variants[2].bandwidth
    /\ hlsSource.variants[2].bandwidth = hlsSource.variants[3].bandwidth
    /\ hlsSource.variants[2].codecs = <<"avc1", "mp4a">>
    /\ hlsSource.variants[3].codecs = <<>>
    /\ hlsSource.selectedVariant = 2

\* C26: when fetchFn throws and a retry hook is configured, the hook is called
\* once per failed attempt, with the attempt indices 0, 1, 2, ... in order for
\* one URL, with that attempt's error and the URL; a numeric result causes
\* exactly one further call of fetchFn, a null result propagates the last
\* error, and without a hook the first error propagates with no retry.
C26_RetryHook ==
    LET calls == hlsSource.hookCalls
        here == SelectSeq(calls, LAMBDA c : c.url = hlsSource.url)
        before == SelectSeq(calls, LAMBDA c : c.url # hlsSource.url)
        thrownByFetch == hlsSource.pc = "failed" /\ hlsSource.thrown # 0
    IN /\ hlsSource.getRetryDelay =>
             /\ Len(calls) = hlsSource.errors
             /\ \A k \in DOMAIN calls : calls[k].error = k
             /\ calls = before \o here
             /\ \A k \in DOMAIN here : here[k].attempt = k - 1
             /\ \A k \in DOMAIN before : before[k].attempt = k - 1
             /\ hlsSource.pc # "idle" =>
                   hlsSource.fetchCalls =
                      IF hlsSource.pc = "delay" \/ thrownByFetch
                      THEN Len(here) ELSE Len(here) + 1
       /\ ~hlsSource.getRetryDelay =>
             /\ calls = <<>>
             /\ hlsSource.fetchCalls <= 1
             /\ hlsSource.errors > 0 => hlsSource.errors = 1 /\ thrownByFetch
       /\ thrownByFetch => hlsSource.thrown = hlsSource.errors

\* the manifest fetch has thrown three times: the hook returned a delay twice
\* and then null
C26_GaveUpAfterTwoRetries ==
    /\ hlsSource.pc = "failed"
    /\ hlsSource.url = "manifest"
    /\ hlsSource.fetchCalls = 3
    /\ hlsSource.thrown = 3
    /\ hlsSource.hookCalls = [k \in 1..3 |-> [attempt |-> k - 1, error |-> k,
                                               url |-> "manifest"]]

\* C27: every media playlist the muxer writes in sliding-window mode, after a
\* finalized segment or at finalize, has as media sequence the number of the
\* first segment it lists.
C27_MediaSequenceIsFirstSegment ==
    muxer.playlistType = "unset" =>
        \A k \in DOMAIN muxer.written :
            muxer.written[k].segments # <<>> =>
                muxer.written[k].mediaSequence = muxer.written[k].segments[1].uri

C29_DecodeOrderAcrossSegments ==
    LET expected == packets(track, 0) \o packets(track, 1)
    IN /\ Len(track.delivered) <= Len(expected)
       /\ track.delivered = SubSeq(expected, 1, Len(track.delivered))
       /\ track.pc = "end" => track.delivered = expected

\* C30: when the fetch of a segment that a refresh expired while the fetch was
\* in flight completes, the cache, the LRU order and the offsets of the
\* segments still in knownSequences stay as they are.
C30_ExpiredFetchLeavesState ==
    [][\A r \in DOMAIN fetches :
          (~r.att /\ ~disposed /\ FetchComplete(r, TRUE))
             => /\ segmentDataCache' = segmentDataCache
                /\ segmentAccessOrder' = segmentAccessOrder
                /\ \A seq \in Range(knownSequences) :
                      segmentInfoMap'[seq] = segmentInfoMap[seq]]_vars

\* C39: a source has at most one refresh timer pending and at most one
\* playlist refresh in flight: the timers set and not yet fired or cleared are
\* one when the handle is set and none otherwise, the refreshPlaylist calls
\* under way are one when isRefreshing and none otherwise.
C39_OneTimerOneRefresh ==
    /\ scheduled.timers = (IF refreshTimer THEN 1 ELSE 0)
    /\ scheduled.refreshes = (IF isRefreshing THEN 1 ELSE 0)

\* a timer is pending on an initialized live source while another
\* initialize() is still under way: it will call startRefreshTimer again
C39_SecondInitializeWithTimer ==
    /\ refreshTimer
    /\ segmentChangeCounter > 1
    /\ initialized
    /\ rd.pc = "init" \/ ensuring
    /\ ~mediaPlaylist.endList
    /\ ~disposed

----------------------------------------------------------------------------
(* getSegmentExpectedStartTime *)

RECURSIVE CumulativeTime(_, _, _, _)
CumulativeTime(known, map, segmentId, cumulativeTime) ==
    IF known = <<>> THEN NULL
    ELSE IF Head(known) = segmentId THEN cumulativeTime
    ELSE CumulativeTime(Tail(known), map, segmentId,
                        IF Head(known) \in DOMAIN map
                        THEN cumulativeTime + SegDuration(Head(known))
                        ELSE cumulativeTime)

\* the value returned for segmentId by a source in the given state
getSegmentExpectedStartTime(segmentId, init, playlist, removed, known, map) ==
    IF ~init THEN NULL
    ELSE LET isLive == ~playlist.endList
             baseTime == IF isLive THEN removed ELSE 0
         IN CumulativeTime(known, map, segmentId, baseTime)

\* C35: the expected start time of a media sequence does not change for as
\* long as the sequence stays in knownSequences of an initialized source,
\* whatever is ingested or expired around it
C35_ExpectedStartTimeStable ==
    [][\A seq \in Range(knownSequences) \cap Range(knownSequences') :
          (initialized /\ initialized' /\ ~disposed')
          => getSegmentExpectedStartTime(seq, initialized', mediaPlaylist',
                 removedDurationSeconds', knownSequences', segmentInfoMap')
             = getSegmentExpectedStartTime(seq, initialized, mediaPlaylist,
                 removedDurationSeconds, knownSequences, segmentInfoMap)]_vars

\* C33: for every adjacent pair of knownSequences the start offset of the
\* later segment equals the end offset of the earlier one, in whatever order
\* the segments are fetched
C33_AdjacentOffsetsMeet ==
    \A i \in 1..(Len(knownSequences) - 1) :
        segmentInfoMap[knownSequences[i + 1]].start
            = segmentInfoMap[knownSequences[i]].end

\* C40: every media sequence of segmentDataCache occurs exactly once in
\* segmentAccessOrder, and segmentAccessOrder holds no sequence that is
\* absent from the cache
C40_AccessOrderMatchesCache ==
    /\ Range(segmentAccessOrder) = segmentDataCache
    /\ Cardinality(Range(segmentAccessOrder)) = Len(segmentAccessOrder)

\* C32: whenever the facade holds a variant input, the input was built from
\* the media playlist of the variant that is selected at that moment
C32_InputOfSelectedVariant ==
    hls.selectedInput.built => hls.selectedInput.from = hls.selectedVariant

\* C34: queries that run before the variant input exists share one input: at
\* most one fetch of the media playlist is in flight, and a step that
\* constructs an HlsVariantInput finds the facade without one
C34_QueriesShareOneInput ==
    [][/\ Cardinality({c \in 1..NCallers : hls'.calls[c].pc = "media"}) <= 1
       /\ \A c \in 1..NCallers :
             (/\ hls.calls[c].pc = "media"
              /\ hls'.calls[c].pc # "media"
              /\ Len(hls'.returned) # 2)
             => ~hls.selectedInput.built]_vars

\* C36: under the policies { bandwidth } and { resolution } resolve() selects
\* a variant whose codecs contain ec-3 or ac-3 only when every variant does;
\* otherwise the selected variant is, among the variants without them, the
\* first of those nearest to the requested value
C36_ClosestAvoidsDolby ==
    LET v == hlsSource.variants
        chosen == hlsSource.selectedVariant
        plain == {i \in DOMAIN v : /\ "ec-3" \notin Range(v[i].codecs)
                                   /\ "ac-3" \notin Range(v[i].codecs)}
        plainVariants == SelectSeq([i \in 1..Len(v) |-> i], LAMBDA i : i \in plain)
        nearest == selectVariant([k \in 1..Len(plainVariants) |-> v[plainVariants[k]]],
                                 hlsSource.qualitySelection)
    IN (/\ hlsSource.master
        /\ hlsSource.qualitySelection \in {"bandwidth", "resolution"}
        /\ chosen # 0) =>
          /\ chosen \notin plain => plain = {}
          /\ plain # {} => chosen = plainVariants[nearest]

\* C31: once the set-up of the demuxer of a source is complete, every
\* segment that the source tracks has exactly one entry in the fragment
\* lookup table, whether it was ingested before the table was populated,
\* while the set-up was suspended, or after the callbacks were registered
C31_TrackedSegmentsInLookupTable ==
    (demuxer.populated /\ onSegmentsAdded /\ ~disposed) =>
        \A seq \in Range(knownSequences) :
            Cardinality({i \in DOMAIN demuxer.table : demuxer.table[i] = seq}) = 1

\* C37: no two recoveries started by HlsLiveEdgeError are in progress at
\* the same time, and isHandlingLiveEdge is cleared only by the timer that
\* fires 500 ms after the end of the recovery that set it
C37_RecoveriesSerialized ==
    [][/\ Cardinality({t \in 1..NTasks : player'.tasks[t].kind = "recovery"}) <= 1
       /\ (player.isHandlingLiveEdge /\ ~player'.isHandlingLiveEdge)
             => (player.setBy \in player.timers /\ player.setBy \notin player'.timers)]_vars

\* C38: once a newer load has started, no coroutine that began before it
\* writes the sinks, the iterators, the next frame, the playback position or
\* the total duration when it resumes from an await
C38_StaleCoroutinesWriteNothing ==
    [][LET written(old, new) == new # old /\ new # <<>> /\ new[1] < player.gen
       IN /\ ~written(player.totalDuration, player'.totalDuration)
          /\ ~written(player.playbackTimeAtStart, player'.playbackTimeAtStart)
          /\ ~written(player.videoSink, player'.videoSink)
          /\ ~written(player.videoFrameIterator, player'.videoFrameIterator)
          /\ ~written(player.nextFrame, player'.nextFrame)]_vars

====
